---------------------------- MODULE Spec2Model ----------------------------
(***************************************************************************)
(* container-use: the Repository Lock Manager (package repository), the    *)
(* Environment lifecycle (package environment) and its file mutations,     *)
(* and the notebook environments (package notebook).                       *)
(*                                                                         *)
(* The module holds one specification per component or scenario:           *)
(*   SpecEnv        concurrent callers of one Environment (container mode) *)
(*   SpecSnapshot   mutating calls and snapshot readers of one Environment *)
(*   SpecLife       one Environment from New or Load on, in either mode    *)
(*   SpecBg         RunBackground, KillBackground, Terminal and Checkpoint *)
(*   SpecBgHost     concurrent RunBackground and KillBackground, host mode *)
(*   SpecKill       KillBackground with processes already recorded         *)
(*   SpecPeers      two Environments of one process on one host            *)
(*   SpecCell       concurrent ExecuteCell calls on notebook environments  *)
(*   SpecPool       RegisterNotebook and Execute on a running executor     *)
(*   SpecExecutor   Start, Execute and Stop in any order on a new executor *)
(*   SpecTools      calls of the notebook MCP tool handlers                *)
(*   SpecEdit       FileEdit calls on one file of the workdir              *)
(*   SpecRead       FileRead calls on one file of the workdir              *)
(*   SpecLock       processes contending on the repository lock files      *)
(*   SpecLockOpen   SpecLock where opening a lock file can fail            *)
(*   SpecLockShared goroutines of one process sharing one lock manager     *)
(*   SpecLockRoutes managers created with different paths of the repository*)
(*   FairSpecLock   SpecLock with the scheduler's and the clock's fairness *)
(* Every specification leaves the variables of the other components at     *)
(* their initial values.                                                   *)
(***************************************************************************)
EXTENDS Integers, Sequences, FiniteSets, TLC

(***************************************************************************)
(* Bounds of the model.                                                    *)
(***************************************************************************)
\* pids and TCP ports of the host, and the number of RunBackground, KillBackground,
\* Terminal and Checkpoint calls
NumPids == 3
NumPorts == 3
MaxBgOps == 2
\* number of concurrent callers of one Environment
NumThreads == 2
\* notebook environments, and the number of ExecuteCell calls in one behaviour
NumNotebooks == 2
MaxCells == 3
\* workers of a ParallelExecutor; RegisterNotebook and Execute calls in one behaviour
MaxParallel == 2
MaxPoolOps == 3
\* calls of the notebook tool handlers in one behaviour
MaxToolCalls == 2
\* number of operations started on the Environment in one behaviour
MaxOps == 3
\* number of OS processes (one RepositoryLockManager each) sharing the repository
NumProcs == 3
\* longest file contents FileEdit is first called on
MaxLen == 4
\* longest search text
MaxSearch == 2
\* number of FileEdit calls in one behaviour
MaxEdits == 2
\* longest file FileRead is called on, and the largest line number it is passed
MaxReadLen == 4
MaxLine == 4

VARIABLES
    \* ---- Environment ----
    config,       \* env.State.Config
    snapshotRef,  \* env.State.Container: the current snapshot
    updatedAt,    \* env.State.UpdatedAt
    notes,        \* env.Notes: the log of recorded actions
    epc,          \* epc[t]: where caller t is inside an operation on the Environment
    arg,          \* arg[t]: the argument of t's operation (a command, a path)
    base,         \* base[t]: the container t's operation got from env.container()
    tmp,          \* tmp[t]: the new container value t's operation has built from it
    prior,        \* prior[t]: env.State.Config when t last called UpdateConfig (history)
    eres,         \* eres[t]: what t's last operation returned
    nOps,         \* operations started so far
    completed,    \* the commands run and the file mutations made, as their calls returned (history)
    life,         \* "Building" before New or Load returned, then "Ready" or "Failed"
    newRes,       \* what New or Load returned
    buildLog,     \* the steps the most recent buildBase carried out, in order (history)
    \* ---- background processes, Terminal and Checkpoint ----
    backgroundProcesses, \* env.State.BackgroundProcesses
    alive,        \* the pids of the processes running on the host
    spawned,      \* the pids of the processes RunBackground has started (history)
    bound,        \* the TCP ports bound on the host, each with the pid that holds it
    signals,      \* the signals KillBackground has sent, in order (history)
    bpc,          \* bpc[t]: where caller t is inside RunBackground or KillBackground
    barg,         \* barg[t]: the pid and the ports of t's call
    bres,         \* bres[t]: what t's last call returned
    nBg,          \* calls started so far
    \* ---- package notebook: ExecuteCell ----
    executionCount, \* executionCount[nb]: nb.KernelState.ExecutionCount
    mu,           \* mu[nb]: the caller that holds nb.mu, or NoHolder
    xpc,          \* xpc[t]: where caller t is inside ExecuteCell
    xarg,         \* xarg[t]: the notebook of t's call and the count it has loaded
    xres,         \* xres[t]: what t's last ExecuteCell returned
    succeeded,    \* succeeded[nb]: ExecuteCell calls on nb that returned an output (history)
    nCells,       \* ExecuteCell calls started so far
    \* ---- package notebook: ParallelExecutor ----
    pool,         \* the notebooks in pe.pool
    rpc,          \* rpc[t]: where goroutine t is inside RegisterNotebook or Execute
    rarg,         \* rarg[t]: the notebook t registers
    raced,        \* raced[t]: another access to pe.pool overlapped t's assignment
    registered,   \* the notebooks RegisterNotebook has returned for (history)
    fatal,        \* the Go runtime has thrown a fatal error
    queue,        \* pe.queue
    wpc,          \* wpc[w]: where worker w is in its loop
    wreq,         \* wreq[w]: the request w has received
    pres,         \* pres[t]: what t's last Execute returned
    stop,         \* pe.queue is open, or Stop has closed it, or Stop has returned
    nPool,        \* RegisterNotebook and Execute calls started so far
    \* ---- package notebook: MCP tools ----
    dag,          \* the package's dagger client: "nil" until Initialize
    toolCalls,    \* the calls of the tool handlers and what they came to (history)
    \* ---- FileEdit on one file ----
    fileContents, \* the contents of targetFile in the current snapshot
    edArgs,       \* the arguments of the last FileEdit call
    edRes,        \* what the last FileEdit call returned
    edCalls,      \* FileEdit calls so far
    \* ---- FileRead on one file ----
    rdArgs,       \* the arguments of the last FileRead call
    rdRes,        \* what the last FileRead call returned
    \* ---- Repository Lock Manager ----
    lpc,      \* lpc[p]: where caller p is inside WithLock/WithRLock
    req,      \* req[p]: the lock type and form (exclusive or shared) p asked for
    flocks,   \* flocks[m][t]: the flock.Flock handle manager m caches for type t
    lres,     \* lres[p]: what p's last WithLock/WithRLock call returned
    mgr,      \* mgr[p]: the RepositoryLockManager caller p calls
    path,     \* path[m]: the repoPath manager m was created with
    \* ---- a second Environment ----
    peer      \* its State.Config, State.Container, State.BackgroundProcesses and Notes

envVars == <<config, snapshotRef, updatedAt, notes, epc, arg, base, tmp, prior, eres, nOps,
            completed, life, newRes, buildLog>>
lockVars == <<lpc, req, flocks, lres, mgr, path>>
editVars == <<fileContents, edArgs, edRes, edCalls>>
readVars == <<rdArgs, rdRes>>
bgVars == <<backgroundProcesses, alive, spawned, bound, signals, bpc, barg, bres, nBg>>
cellVars == <<executionCount, mu, xpc, xarg, xres, succeeded, nCells>>
poolVars == <<pool, rpc, rarg, raced, registered, fatal, queue, wpc, wreq, pres, stop, nPool>>
toolVars == <<dag, toolCalls>>
notebookVars == <<cellVars, poolVars, toolVars>>
vars == <<envVars, editVars, readVars, lockVars, bgVars, notebookVars, peer>>

\* what the operations of one component leave alone
nonEnvVars == <<editVars, readVars, lockVars, bgVars, notebookVars, peer>>
nonEditVars == <<envVars, readVars, lockVars, bgVars, notebookVars, peer>>
nonReadVars == <<envVars, edArgs, edRes, edCalls, lockVars, bgVars, notebookVars, peer>>
nonLockVars == <<envVars, editVars, readVars, bgVars, notebookVars, peer>>
\* RunBackground and KillBackground change State.UpdatedAt and Notes
restVars == <<config, snapshotRef, epc, arg, base, tmp, prior, eres, nOps, completed,
              life, newRes, buildLog, editVars, readVars, lockVars, notebookVars>>
nonBgVars == <<restVars, peer>>
\* package notebook shares nothing with package environment
nonNotebookVars == <<envVars, editVars, readVars, lockVars, bgVars, peer>>
nonCellVars == <<nonNotebookVars, poolVars, toolVars>>
nonPoolVars == <<nonNotebookVars, cellVars, toolVars>>
nonToolVars == <<nonNotebookVars, cellVars, poolVars>>

(***************************************************************************)
(* Repository Lock Manager                                                 *)
(***************************************************************************)
Procs == 1..NumProcs

\* LockTypeRepo, LockTypeWorktree, LockTypeGitNotes
LockTypes == {"repo", "worktree", "notes"}

\* path strings that lead to one repository: "/r", the same with a trailing
\* separator, the relative path from the parent directory and a symlink "/s"
RepoPath == <<47, 114>>
TrailingPath == <<47, 114, 47>>
RelativePath == <<114>>
SymlinkPath == <<47, 115>>
Routes == {RepoPath, TrailingPath, RelativePath, SymlinkPath}

RECURSIVE BitXor(_, _)
BitXor(a, b) ==
    IF a = 0 THEN b
    ELSE IF b = 0 THEN a
    ELSE (((a % 2) + (b % 2)) % 2) + 2 * BitXor(a \div 2, b \div 2)

\* FNV-1a 32-bit offset basis 2166136261 = 0x811C9DC5, as two 16-bit halves
FnvOffsetHi == 33052
FnvOffsetLo == 40389
\* FNV-1a 32-bit prime 16777619 = 2^24 + 403
FnvPrimeLo == 403

\* one round of hashString: h = (h ^ uint32(b)) * 16777619, modulo 2^32,
\* on h = <<high 16 bits, low 16 bits>>
FnvRound(h, b) ==
    LET lo  == ((h[2] \div 256) * 256) + BitXor(h[2] % 256, b)
        hi  == h[1]
        plo == lo * FnvPrimeLo
    IN  << ((hi * FnvPrimeLo) + (plo \div 65536) + ((lo % 256) * 256)) % 65536,
           plo % 65536 >>

RECURSIVE FnvFold(_, _)
FnvFold(h, s) == IF s = <<>> THEN h ELSE FnvFold(FnvRound(h, Head(s)), Tail(s))

hashString(s) == FnvFold(<<FnvOffsetHi, FnvOffsetLo>>, s)

\* (mutant) the lock file name leaves the lock type out
LockFileName_NoType(repoPath, lockType) == <<hashString(repoPath), "lock">>

\* the lock file GetLock names: container-use-<hash of the path>-<lock type>.lock
LockFileName(repoPath, lockType) == <<hashString(repoPath), lockType>>

\* the lock file behind each lock type of a manager created with the path r
lockFile == [r \in Routes |-> [t \in LockTypes |-> LockFileName(r, t)]]

\* a flock.Flock handle: the flags l (exclusively locked) and r (share locked) it
\* keeps, and the kernel's lock on its open file: "none", "sh" or "ex"
NewFlock == [l |-> FALSE, r |-> FALSE, held |-> "none"]

NoReq == [type |-> "repo", excl |-> FALSE]

\* (mutant) an exclusive request only looks for other exclusive holders
FlockConflict_IgnoresShared(fl, p, t, excl) ==
    \E q \in Procs, u \in LockTypes :
        /\ <<q, u>> # <<p, t>>
        /\ fl[q][u].held = "ex"
        /\ u = t

\* flock(2) with LOCK_NB on the handle <<p, t>> of manager p: an exclusive lock conflicts with
\* every lock another open file holds on the same file, a shared lock with an
\* exclusive one
FlockConflict(fl, p, t, excl) ==
    \E q \in Procs, u \in LockTypes :
        /\ <<q, u>> # <<p, t>>
        /\ lockFile[path[q]][u] = lockFile[path[p]][t]
        /\ IF excl THEN fl[q][u].held # "none" ELSE fl[q][u].held = "ex"

\* (mutant) a refused attempt still marks the handle as locked
TryLock_FlagOnFailure(fl, p, t, excl) ==
    LET h == fl[p][t] IN
    IF FlockConflict(fl, p, t, excl)
    THEN [ok |-> FALSE,
          fl |-> [fl EXCEPT ![p][t] = IF excl THEN [h EXCEPT !.l = TRUE]
                                       ELSE [h EXCEPT !.r = TRUE]]]
    ELSE [ok |-> TRUE,
          fl |-> [fl EXCEPT ![p][t] =
                    IF excl THEN [h EXCEPT !.l = TRUE, !.held = "ex"]
                    ELSE [h EXCEPT !.r = TRUE, !.held = "sh"]]]

\* Flock.TryLock / Flock.TryRLock: [ok, fl], the answer and the handles afterwards
TryLock(fl, p, t, excl) ==
    LET h == fl[p][t] IN
    IF (excl /\ h.l) \/ (~excl /\ h.r)
    THEN [ok |-> TRUE, fl |-> fl]
    ELSE IF FlockConflict(fl, p, t, excl)
    THEN [ok |-> FALSE, fl |-> fl]
    ELSE [ok |-> TRUE,
          fl |-> [fl EXCEPT ![p][t] =
                    IF excl THEN [h EXCEPT !.l = TRUE, !.held = "ex"]
                    ELSE [h EXCEPT !.r = TRUE, !.held = "sh"]]]

\* (mutant) Lock asks for the shared form
Lock_Shared(fl, p, t) == TryLock(fl, p, t, FALSE)

\* one attempt of RepositoryLock.Lock
Lock(fl, p, t) == TryLock(fl, p, t, TRUE)

\* one attempt of RepositoryLock.RLock
RLock(fl, p, t) == TryLock(fl, p, t, FALSE)

\* RepositoryLock.Unlock: a handle that holds nothing is left alone
Unlock(fl, p, t) ==
    IF ~fl[p][t].l /\ ~fl[p][t].r THEN fl
    ELSE [fl EXCEPT ![p][t] = NewFlock]

\* (mutant) Unlock follows the call of the protected function without defer
WithLockExit_NoDefer(fl, p, t, o) == IF o = "panic" THEN fl ELSE Unlock(fl, p, t)

\* the handles after the protected function of WithLock/WithRLock has ended with
\* outcome o ("ok", "err" or "panic"): the deferred Unlock has run
WithLockExit(fl, p, t, o) == Unlock(fl, p, t)

FnOutcomes == {"ok", "err", "panic"}

\* (mutant) the retry loop never looks at the context
CtxDone_Never(p) == FALSE

\* the context of p's waiting request can be done: its deadline elapses, or its
\* caller cancels it, at any moment of the wait
CtxDone(p) == lpc[p] = "wait"

\* (mutant) WithLock calls the protected function whatever Lock returned
Attempt_IgnoresAnswer(p, t, excl) ==
    LET a == IF excl THEN Lock(flocks, mgr[p], t) ELSE RLock(flocks, mgr[p], t) IN
    /\ flocks' = a.fl
    /\ lpc' = [lpc EXCEPT ![p] = "body"]
    /\ req' = [req EXCEPT ![p] = [type |-> t, excl |-> excl]]
    /\ lres' = [lres EXCEPT ![p] = "none"]

\* one pass of the retry loop of TryLockContext/TryRLockContext: the attempt, and
\* on failure the select on ctx.Done() and time.After(retryDelay)
Attempt(p, t, excl) ==
    LET a == IF excl THEN Lock(flocks, mgr[p], t) ELSE RLock(flocks, mgr[p], t) IN
    /\ flocks' = a.fl
    /\ lpc' = [lpc EXCEPT ![p] = IF a.ok THEN "body" ELSE "wait"]
    /\ req' = [req EXCEPT ![p] = [type |-> t, excl |-> excl]]
    /\ lres' = [lres EXCEPT ![p] = "none"]

\* the context is already done: the call fails without an attempt
Expired(p) ==
    /\ lres' = [lres EXCEPT ![p] = "timeout"]
    /\ UNCHANGED <<lpc, req, flocks>>

\* WithLock (excl) / WithRLock (~excl) is called
Call(p) ==
    /\ lpc[p] = "idle"
    /\ \/ Expired(p)
       \/ \E t \in LockTypes, excl \in BOOLEAN : Attempt(p, t, excl)
    /\ UNCHANGED <<mgr, path>>
    /\ UNCHANGED nonLockVars

\* WithLock / WithRLock is called where the lock file cannot be created or opened
\* (the lock directory is missing or not writable): the first attempt returns the
\* error, Lock/RLock wraps it, WithLock/WithRLock returns it without calling the
\* protected function
CallOpenFails(p) ==
    /\ lpc[p] = "idle"
    /\ lres' = [lres EXCEPT ![p] = "lockerr"]
    /\ UNCHANGED <<lpc, req, flocks, mgr, path>>
    /\ UNCHANGED nonLockVars

\* the retryDelay timer fires: the loop tries again
Retry(p) ==
    /\ lpc[p] = "wait"
    /\ Attempt(p, req[p].type, req[p].excl)
    /\ UNCHANGED <<mgr, path>>
    /\ UNCHANGED nonLockVars

\* the context is done and the select sees ctx.Done(): Lock/RLock returns the
\* error, WithLock returns it without calling the protected function
Timeout(p) ==
    /\ lpc[p] = "wait"
    /\ CtxDone(p)
    /\ lpc' = [lpc EXCEPT ![p] = "idle"]
    /\ lres' = [lres EXCEPT ![p] = "timeout"]
    /\ req' = [req EXCEPT ![p] = NoReq]
    /\ UNCHANGED flocks
    /\ UNCHANGED <<mgr, path>>
    /\ UNCHANGED nonLockVars

\* the protected function ends (returns nil, returns an error, or panics) and
\* WithLock/WithRLock returns
FnExit(p) ==
    /\ lpc[p] = "body"
    /\ \E o \in FnOutcomes :
        /\ flocks' = WithLockExit(flocks, mgr[p], req[p].type, o)
        /\ lres' = [lres EXCEPT ![p] = o]
    /\ lpc' = [lpc EXCEPT ![p] = "idle"]
    /\ req' = [req EXCEPT ![p] = NoReq]
    /\ UNCHANGED <<mgr, path>>
    /\ UNCHANGED nonLockVars

\* no call has been made; the callers' managers and the managers' paths are given
InitLockOf(managers, paths) ==
    /\ lpc = [p \in Procs |-> "idle"]
    /\ req = [p \in Procs |-> NoReq]
    /\ flocks = [m \in Procs |-> [t \in LockTypes |-> NewFlock]]
    /\ lres = [p \in Procs |-> "none"]
    /\ mgr = managers
    /\ path = paths

\* every caller is a process with a manager of its own, created with RepoPath
InitLock == InitLockOf([p \in Procs |-> p], [m \in Procs |-> RepoPath])

\* callers 1 and 2 are goroutines of one process that share one manager; the other
\* callers are processes with a manager of their own
InitLockShared ==
    InitLockOf([p \in Procs |-> IF p = 2 THEN 1 ELSE p], [m \in Procs |-> RepoPath])

\* every caller is a process with a manager of its own; the first was created with
\* RepoPath, the others with one of the path strings of the repository
InitLockRoutes ==
    \E r \in Routes :
        InitLockOf([p \in Procs |-> p], [m \in Procs |-> IF m = 1 THEN RepoPath ELSE r])

NextLock ==
    \/ \E p \in Procs : Call(p)
    \/ \E p \in Procs : Retry(p)
    \/ \E p \in Procs : Timeout(p)
    \/ \E p \in Procs : FnExit(p)

\* the calls, those that cannot open the lock file included
NextLockOpen ==
    \/ NextLock
    \/ \E p \in Procs : CallOpenFails(p)

(***************************************************************************)
(* Environment: container mode and host mode                               *)
(***************************************************************************)
Threads == 1..NumThreads

Absent == "absent"

\* commands: what running them does to the workdir, and what they report
CmdTouch == [name |-> "echo out > b", exit |-> 0, writes |-> "out", stdout |-> <<"ok">>, stderr |-> <<>>]
CmdFail  == [name |-> "echo half > b; fail", exit |-> 1, writes |-> "half", stdout |-> <<>>, stderr |-> <<"boom">>]
Commands == {CmdTouch, CmdFail}

\* build commands of the configs
CmdInstallOk == [name |-> "install", exit |-> 0, writes |-> Absent, stdout |-> <<>>, stderr |-> <<>>]
CmdInstallKo == [name |-> "install-broken", exit |-> 1, writes |-> Absent, stdout |-> <<>>, stderr |-> <<"no such package">>]
CmdInstall2 == [name |-> "make", exit |-> 0, writes |-> Absent, stdout |-> <<"built">>, stderr |-> <<>>]
CmdSetup1 == [name |-> "apt-get update", exit |-> 0, writes |-> Absent, stdout |-> <<"updated">>, stderr |-> <<>>]
CmdSetupKo == [name |-> "apt-get install nothing", exit |-> 2, writes |-> Absent, stdout |-> <<"reading">>, stderr |-> <<"unable to locate">>]
CmdSetup2 == [name |-> "mkdir cache", exit |-> 0, writes |-> Absent, stdout |-> <<>>, stderr |-> <<>>]

\* EnvironmentConfig values: the config the Environment was created with, one whose
\* build succeeds and one whose install command exits non-zero
Cfg0   == [baseImage |-> "img", setupCommands |-> <<>>, installCommands |-> <<>>,
    env |-> <<>>, secrets |-> <<>>]
CfgOk  == [baseImage |-> "img", setupCommands |-> <<>>, installCommands |-> <<CmdInstallOk>>,
    env |-> <<>>, secrets |-> <<>>]
CfgBad == [baseImage |-> "img", setupCommands |-> <<CmdInstallOk>>, installCommands |-> <<CmdInstallKo>>,
    env |-> <<>>, secrets |-> <<>>]
NewConfigs == {CfgOk, CfgBad}

\* configs with several setup and install commands, one failing in the middle of the
\* install commands and one in the middle of the setup commands, and host-mode configs
CfgSteps == [baseImage |-> "img", setupCommands |-> <<CmdSetup1, CmdSetup2>>,
             installCommands |-> <<CmdInstallOk, CmdInstallKo, CmdInstall2>>,
    env |-> <<>>, secrets |-> <<>>]
CfgSetupKo == [baseImage |-> "img", setupCommands |-> <<CmdSetup1, CmdSetupKo, CmdSetup2>>,
               installCommands |-> <<CmdInstallOk>>,
    env |-> <<>>, secrets |-> <<>>]
CfgHost == [baseImage |-> "Host", setupCommands |-> <<CmdSetup1>>, installCommands |-> <<CmdInstallOk>>,
    env |-> <<>>, secrets |-> <<>>]
CfgHostBad == [baseImage |-> "host", setupCommands |-> <<CmdSetup1>>,
               installCommands |-> <<CmdInstallKo, CmdInstall2>>,
    env |-> <<>>, secrets |-> <<>>]

\* entries of Config.Env and Config.Secrets, as sequences of characters: "K=v" and
\* one without the separator
KeyValue == <<"K", "=", "v">>
NoSeparator == <<"K", "v">>

\* configs with a malformed env entry, a malformed secrets entry, and a host-mode
\* config with both
CfgEnvKo == [baseImage |-> "img", setupCommands |-> <<CmdSetup1>>, installCommands |-> <<>>,
    env |-> <<KeyValue, NoSeparator>>, secrets |-> <<>>]
CfgSecretKo == [baseImage |-> "img", setupCommands |-> <<>>, installCommands |-> <<CmdInstallOk>>,
    env |-> <<KeyValue>>, secrets |-> <<NoSeparator>>]
CfgHostEnvKo == [baseImage |-> "host", setupCommands |-> <<CmdSetup1>>, installCommands |-> <<>>,
    env |-> <<NoSeparator>>, secrets |-> <<NoSeparator>>]
LifeConfigs == {Cfg0, CfgOk, CfgSteps, CfgSetupKo, CfgHost, CfgHostBad,
                CfgEnvKo, CfgSecretKo, CfgHostEnvKo}

\* strings.EqualFold(s, "host") on the image names of the configs
EqualFoldHost(s) == s \in {"host", "Host", "HOST"}

\* IsHost: the mode is derived from config.baseImage
IsHost(cfg) == EqualFoldHost(cfg.baseImage)

\* a container value: the config it was built from and the files of its workdir,
\* "a" (absent, or its contents "x", "xx" or "y") and "b" (absent, or what a command
\* wrote)
Container(cfg, a, b) == [cfg |-> cfg, a |-> a, b |-> b, kind |-> "container"]

\* a step of the runtime that cannot be carried out (a patch that does not apply)
Broken == [cfg |-> Cfg0, a |-> "broken", b |-> "broken", kind |-> "broken"]

\* State.Container of a host-mode Environment: the sentinel "host", which is not a
\* reference of the runtime, and State.Container before New assigned it
HostRef == [cfg |-> Cfg0, a |-> Absent, b |-> Absent, kind |-> "host"]
NoSnapshot == [cfg |-> Cfg0, a |-> Absent, b |-> Absent, kind |-> "none"]

\* the runtime can evaluate a value only if it derives from one of its references:
\* LoadContainerFromID("host") and everything built on it fail when evaluated
Resolves(c) == c.kind = "container"

\* the Expect option Run passes to WithExec: with ReturnTypeAny a non-zero exit is a
\* result, with the runtime's default it is an error of the exec
Expect_Success == "ReturnTypeSuccess"
Expect == "ReturnTypeAny"
ExecReturns(cmd) == Expect = "ReturnTypeAny" \/ cmd.exit = 0

\* Container.WithExec: the command writes "b" before it exits
WithExec(c, cmd) == [c EXCEPT !.b = cmd.writes]

\* Container.WithNewFile / WithoutFile on path "a"
WithNewFile(c, contents) == [c EXCEPT !.a = contents]
WithoutFile(c) == [c EXCEPT !.a = Absent]

\* the patch FileEdit generates for search "x", replace "y" on contents "x", and
\* Directory.WithPatch: the patch applies only to the contents it was made from
PatchXY == [old |-> "x", new |-> "y"]
WithPatch(c, patch) == IF c.a = patch.old THEN [c EXCEPT !.a = patch.new] ELSE Broken

\* the entry Notes.AddCommand / Notes.Add appends
NoteCommand(cmd) == [command |-> cmd.name, exit |-> cmd.exit, stdout |-> cmd.stdout, stderr |-> cmd.stderr]
NoteText(text) == [command |-> text, exit |-> 0, stdout |-> <<>>, stderr |-> <<>>]

\* what the host paths record: the output of CombinedOutput as stdout, err.Error() as
\* stderr
HostStderr(cmd) == IF cmd.exit = 0 THEN <<>> ELSE <<"exit status">>
NoteHostCommand(cmd) ==
    [command |-> cmd.name, exit |-> cmd.exit, stdout |-> cmd.stdout \o cmd.stderr,
     stderr |-> HostStderr(cmd)]

\* combineStdoutStderr and the end of Run: stdout, then the tagged stderr
combineStdoutStderr(stdout, stderr) ==
    IF stderr = <<>> THEN stdout
    ELSE IF stdout # <<>> THEN stdout \o <<"\n", "stderr: ">> \o stderr
    ELSE <<"stderr: ">> \o stderr

Ok(out)  == [err |-> "none", out |-> out]
Err(e)   == [err |-> e, out |-> <<>>]
NoArg  == CmdTouch
NoTmp  == Broken

\* runCommands of buildBase, when every command is run whatever the one before it
\* returned
runCommands_NoStop(cmds) == [ok |-> \A k \in 1..Len(cmds) : cmds[k].exit = 0, ran |-> cmds]

\* runCommands of buildBase: the commands run in order up to the first non-zero
\* exit; [ok, ran], ran the commands that were run
RECURSIVE runCommands(_)
runCommands(cmds) ==
    IF cmds = <<>> THEN [ok |-> TRUE, ran |-> <<>>]
    ELSE IF Head(cmds).exit # 0 THEN [ok |-> FALSE, ran |-> <<Head(cmds)>>]
    ELSE LET r == runCommands(Tail(cmds)) IN [ok |-> r.ok, ran |-> <<Head(cmds)>> \o r.ran]

RECURSIVE NotesOf(_)
NotesOf(cmds) == IF cmds = <<>> THEN <<>> ELSE <<NoteCommand(Head(cmds))>> \o NotesOf(Tail(cmds))

RECURSIVE HostNotesOf(_)
HostNotesOf(cmds) ==
    IF cmds = <<>> THEN <<>> ELSE <<NoteHostCommand(Head(cmds))>> \o HostNotesOf(Tail(cmds))

\* (mutant) only the commands that exited zero are recorded
BuildNotes_SuccessOnly(cfg, ran) ==
    LET done == SelectSeq(ran, LAMBDA c : c.exit = 0) IN
    IF IsHost(cfg) THEN HostNotesOf(done) ELSE NotesOf(done)

\* the Notes entries of the commands a build ran
BuildNotes(cfg, ran) == IF IsHost(cfg) THEN HostNotesOf(ran) ELSE NotesOf(ran)

\* the steps of a build: a command that was run, the source directory put in place
CommandStep(cmd) == [step |-> "command", name |-> cmd.name, exit |-> cmd.exit]
SourceStep == [step |-> "source", name |-> ".", exit |-> 0]
RECURSIVE StepsOf(_)
StepsOf(cmds) == IF cmds = <<>> THEN <<>> ELSE <<CommandStep(Head(cmds))>> \o StepsOf(Tail(cmds))

\* the message of the error buildBase returns for a command that exited non-zero.
\* Host path: "<phase> command failed: command %q failed: %w" with the *exec.ExitError
\* ("exit status N").  Container path: "<phase> command failed: exit code %d.\nstdout:
\* %s\nstderr: %s\n%w" with the runtime's ExecError, whose message quotes the process.
HostErrorText(phase, cmd) ==
    <<phase, "command failed:", "command", cmd.name, "failed:", "exit status">>
ContainerErrorText(phase, cmd) ==
    <<phase, "command failed:", "exit code", "stdout:">> \o cmd.stdout \o <<"stderr:">>
        \o cmd.stderr \o <<"process", cmd.name, "did not complete successfully">>

\* strings.Cut(entry, "="): whether the separator was found
CutFound(entry) == \E k \in 1..Len(entry) : entry[k] = "="

\* containerWithEnvAndSecrets: the first env entry, then the first secrets entry,
\* without a separator is an error; [ok, text]
containerWithEnvAndSecrets(envs, secrets) ==
    LET badEnv == {k \in 1..Len(envs) : ~CutFound(envs[k])}
        badSecret == {k \in 1..Len(secrets) : ~CutFound(secrets[k])}
        first(set) == CHOOSE k \in set : \A j \in set : k <= j
    IN  IF badEnv # {}
        THEN [ok |-> FALSE, text |-> <<"invalid env variable:">> \o envs[first(badEnv)]]
        ELSE IF badSecret # {}
        THEN [ok |-> FALSE, text |-> <<"invalid secret:">> \o secrets[first(badSecret)]]
        ELSE [ok |-> TRUE, text |-> <<>>]

BuildFailed(err, text, ran, steps) ==
    [ok |-> FALSE, err |-> err, text |-> text, ran |-> ran, steps |-> steps,
     container |-> Broken]

\* buildBase.  Host path: setup commands, then install commands, no container; the
\* env and secrets entries are handed to the commands by buildHostEnv, which takes
\* the env entries as they are and skips a secrets entry without separator.
\* Container path: the env and secrets entries, setup commands, the source directory,
\* install commands; the source directory is evaluated with the first install
\* command, or by apply.
\* [ok, err, text, ran, steps, container]
buildBase(cfg, source) ==
    LET s == runCommands(cfg.setupCommands)
        i == runCommands(cfg.installCommands)
        last(r) == r.ran[Len(r.ran)]
    IN
    IF IsHost(cfg)
    THEN IF ~s.ok
         THEN BuildFailed("BuildError", HostErrorText("setup", last(s)), s.ran, StepsOf(s.ran))
         ELSE IF ~i.ok
         THEN BuildFailed("BuildError", HostErrorText("install", last(i)), s.ran \o i.ran,
                          StepsOf(s.ran \o i.ran))
         ELSE [ok |-> TRUE, err |-> "none", text |-> <<>>, ran |-> s.ran \o i.ran,
               steps |-> StepsOf(s.ran \o i.ran), container |-> Broken]
    ELSE IF ~containerWithEnvAndSecrets(cfg.env, cfg.secrets).ok
         THEN BuildFailed("ConfigError", containerWithEnvAndSecrets(cfg.env, cfg.secrets).text,
                          <<>>, <<>>)
         ELSE IF ~s.ok
         THEN BuildFailed("BuildError", ContainerErrorText("setup", last(s)), s.ran,
                          StepsOf(s.ran))
         ELSE IF ~Resolves(source)
         THEN IF cfg.installCommands # <<>>
              THEN BuildFailed("InfraError", <<>>, s.ran, StepsOf(s.ran))
              ELSE [ok |-> TRUE, err |-> "none", text |-> <<>>, ran |-> s.ran,
                    steps |-> StepsOf(s.ran), container |-> [source EXCEPT !.cfg = cfg]]
         ELSE IF ~i.ok
         THEN BuildFailed("BuildError", ContainerErrorText("install", last(i)),
                          s.ran \o i.ran,
                          StepsOf(s.ran) \o <<SourceStep>> \o StepsOf(i.ran))
         ELSE [ok |-> TRUE, err |-> "none", text |-> <<>>, ran |-> s.ran \o i.ran,
               steps |-> StepsOf(s.ran) \o <<SourceStep>> \o StepsOf(i.ran),
               container |-> [source EXCEPT !.cfg = cfg]]

\* (mutant) the read takes no lock: it can see the reference a mutation is about to
\* install
container_Unlocked ==
    IF \E t \in Threads : epc[t] \in {"run_apply", "fw_apply", "fd_apply"}
    THEN tmp[CHOOSE t \in Threads : epc[t] \in {"run_apply", "fw_apply", "fd_apply"}]
    ELSE snapshotRef

\* Environment.container: the current snapshot, read under the read lock
container == snapshotRef

\* Environment.apply when Sync or ID fails: it returns before the assignment
applyFails_Assigns(newState) ==
    /\ snapshotRef' = newState
    /\ UNCHANGED updatedAt
applyFails(newState) == UNCHANGED <<snapshotRef, updatedAt>>

\* Environment.apply, after Sync and ID succeeded: under the write lock
apply(newState) ==
    /\ updatedAt' = updatedAt + 1
    /\ snapshotRef' = newState

\* Environment.applyHost: under the write lock; it cannot fail
applyHost ==
    /\ updatedAt' = updatedAt + 1
    /\ snapshotRef' = HostRef

\* the caller's side of every operation: it starts when the caller is idle
Start(t) ==
    /\ life = "Ready"
    /\ epc[t] = "idle"
    /\ nOps < MaxOps
    /\ nOps' = nOps + 1

Return(t, r) ==
    /\ epc' = [epc EXCEPT ![t] = "idle"]
    /\ eres' = [eres EXCEPT ![t] = r]
    /\ arg' = [arg EXCEPT ![t] = NoArg]
    /\ base' = [base EXCEPT ![t] = NoTmp]
    /\ tmp' = [tmp EXCEPT ![t] = NoTmp]

\* the operation reads the current snapshot and builds value from it
Read(t, label, value) ==
    /\ epc' = [epc EXCEPT ![t] = label]
    /\ base' = [base EXCEPT ![t] = container]
    /\ tmp' = [tmp EXCEPT ![t] = value]

Goto(t, label, value) ==
    /\ epc' = [epc EXCEPT ![t] = label]
    /\ tmp' = [tmp EXCEPT ![t] = value]
    /\ UNCHANGED base

\* ---- Run (container path) ----
\* env.container().WithExec(args, ...)
RunStart(t) ==
    /\ Start(t)
    /\ ~IsHost(config)
    /\ \E cmd \in Commands :
        /\ arg' = [arg EXCEPT ![t] = cmd]
        /\ Read(t, "run_exec", WithExec(container, cmd))
    /\ eres' = [eres EXCEPT ![t] = Ok(<<>>)]
    /\ UNCHANGED <<config, snapshotRef, updatedAt, notes, prior>>
    /\ UNCHANGED completed
    /\ UNCHANGED <<life, newRes, buildLog>>
    /\ UNCHANGED nonEnvVars

\* ExitCode, Stdout, Stderr: the runtime executes the command, or cannot
RunExec(t) ==
    /\ epc[t] = "run_exec"
    /\ \/ /\ Return(t, Err("InfraError"))
          /\ UNCHANGED notes
       \/ IF Resolves(tmp[t]) /\ ExecReturns(arg[t])
          THEN /\ notes' = Append(notes, NoteCommand(arg[t]))
               /\ epc' = [epc EXCEPT ![t] = "run_apply"]
               /\ UNCHANGED <<arg, base, tmp, eres>>
          ELSE /\ Return(t, Err(IF Resolves(tmp[t]) THEN "ExitError" ELSE "InfraError"))
               /\ UNCHANGED notes
    /\ UNCHANGED <<config, snapshotRef, updatedAt, prior, nOps>>
    /\ UNCHANGED completed
    /\ UNCHANGED <<life, newRes, buildLog>>
    /\ UNCHANGED nonEnvVars

\* env.apply(ctx, newState) and the combined output
RunApply(t) ==
    /\ epc[t] = "run_apply"
    /\ \/ /\ Return(t, Err("InfraError"))
          /\ applyFails(tmp[t])
       \/ /\ Resolves(tmp[t])
          /\ apply(tmp[t])
          /\ Return(t, Ok(combineStdoutStderr(arg[t].stdout, arg[t].stderr)))
    /\ completed' = Append(completed, NoteCommand(arg[t]))
    /\ UNCHANGED <<config, notes, prior, nOps>>
    /\ UNCHANGED <<life, newRes, buildLog>>
    /\ UNCHANGED nonEnvVars

\* ---- FileWrite / FileDelete ----
\* env.container().WithNewFile(targetFile, contents)
FileWriteStart(t) ==
    /\ Start(t)
    /\ \E contents \in {"x", "xx"} : Read(t, "fw_apply", WithNewFile(container, contents))
    /\ eres' = [eres EXCEPT ![t] = Ok(<<>>)]
    /\ UNCHANGED <<config, snapshotRef, updatedAt, notes, arg, prior>>
    /\ UNCHANGED completed
    /\ UNCHANGED <<life, newRes, buildLog>>
    /\ UNCHANGED nonEnvVars

\* env.container().WithoutFile(targetFile)
FileDeleteStart(t) ==
    /\ Start(t)
    /\ Read(t, "fd_apply", WithoutFile(container))
    /\ eres' = [eres EXCEPT ![t] = Ok(<<>>)]
    /\ UNCHANGED <<config, snapshotRef, updatedAt, notes, arg, prior>>
    /\ UNCHANGED completed
    /\ UNCHANGED <<life, newRes, buildLog>>
    /\ UNCHANGED nonEnvVars

\* env.apply of FileWrite, FileEdit and FileDelete, then Notes.Add
FileApply(t) ==
    /\ epc[t] \in {"fw_apply", "fd_apply", "fe_apply"}
    /\ \/ /\ Return(t, Err("InfraError"))
          /\ applyFails(tmp[t])
          /\ UNCHANGED <<notes, completed>>
       \/ /\ Resolves(tmp[t])
          /\ apply(tmp[t])
          /\ LET note == NoteText(CASE epc[t] = "fw_apply" -> "Write a"
                                    [] epc[t] = "fd_apply" -> "Delete a"
                                    [] OTHER -> "Edit a")
             IN /\ notes' = Append(notes, note)
                /\ completed' = Append(completed, note)
          /\ Return(t, Ok(<<>>))
    /\ UNCHANGED <<config, prior, nOps>>
    /\ UNCHANGED <<life, newRes, buildLog>>
    /\ UNCHANGED nonEnvVars

\* ---- the read-only operations on the snapshot ----
\* Checkpoint, FileRead, FileList and Terminal: env.container()
ReadSnapshot(t) ==
    /\ Start(t)
    /\ ~IsHost(config)
    /\ Read(t, "rd_use", container)
    /\ eres' = [eres EXCEPT ![t] = Ok(<<>>)]
    /\ UNCHANGED <<config, snapshotRef, updatedAt, notes, arg, prior>>
    /\ UNCHANGED completed
    /\ UNCHANGED <<life, newRes, buildLog>>
    /\ UNCHANGED nonEnvVars

\* the runtime's work on the container that was loaded: Publish, Contents, Entries,
\* Terminal
ReadReturn(t) ==
    /\ epc[t] = "rd_use"
    /\ \E r \in {Ok(<<>>), Err("InfraError")} : Return(t, r)
    /\ UNCHANGED <<config, snapshotRef, updatedAt, notes, prior, nOps>>
    /\ UNCHANGED completed
    /\ UNCHANGED <<life, newRes, buildLog>>
    /\ UNCHANGED nonEnvVars

\* ---- FileEdit (search "x", replace "y", no matchID) ----
\* the contents are read from the current snapshot and scanned: one match, several
\* matches or none
FileEditStart(t) ==
    /\ Start(t)
    /\ IF container.a = "x"
       THEN /\ Read(t, "fe_patch", NoTmp)
            /\ eres' = [eres EXCEPT ![t] = Ok(<<>>)]
            /\ UNCHANGED arg
       ELSE Return(t, Err(CASE container.a = Absent -> "InfraError"
                            [] container.a = "xx" -> "AmbiguousMatch"
                            [] OTHER -> "NotFound"))
    /\ UNCHANGED <<config, snapshotRef, updatedAt, notes, prior>>
    /\ UNCHANGED completed
    /\ UNCHANGED <<life, newRes, buildLog>>
    /\ UNCHANGED nonEnvVars

\* ctr := env.container(); ctr.WithDirectory(".", ctr.Directory(".").WithPatch(patch))
FileEditPatch(t) ==
    /\ epc[t] = "fe_patch"
    /\ Read(t, "fe_apply", WithPatch(container, PatchXY))
    /\ UNCHANGED <<config, snapshotRef, updatedAt, notes, arg, prior, eres, nOps>>
    /\ UNCHANGED completed
    /\ UNCHANGED <<life, newRes, buildLog>>
    /\ UNCHANGED nonEnvVars

\* ---- UpdateConfig ----
\* env.State.Config = newConfig; in container mode env.Workdir() reads the current
\* snapshot, in host mode buildBase gets no source directory
UpdateConfigStart(t, newConfig) ==
    /\ Start(t)
    /\ prior' = [prior EXCEPT ![t] = config]
    /\ config' = newConfig
    /\ IF IsHost(newConfig)
       THEN /\ epc' = [epc EXCEPT ![t] = "uc_build"]
            /\ UNCHANGED <<base, tmp>>
       ELSE Read(t, "uc_build", container)
    /\ eres' = [eres EXCEPT ![t] = Ok(<<>>)]
    /\ UNCHANGED <<snapshotRef, updatedAt, notes, arg>>
    /\ UNCHANGED completed
    /\ UNCHANGED <<life, newRes, buildLog>>
    /\ UNCHANGED nonEnvVars

\* env.buildBase(ctx, ...): on an error UpdateConfig returns it
UpdateConfigBuild(t) ==
    /\ epc[t] = "uc_build"
    /\ \/ /\ ~IsHost(config)
          /\ containerWithEnvAndSecrets(config.env, config.secrets).ok
          /\ Return(t, Err("InfraError"))
          /\ buildLog' = <<>>
          /\ UNCHANGED notes
       \/ LET b == buildBase(config, base[t]) IN
            /\ notes' = notes \o BuildNotes(config, b.ran)
            /\ buildLog' = b.steps
            /\ IF b.ok
               THEN /\ Goto(t, "uc_apply", b.container)
                    /\ UNCHANGED <<arg, eres>>
               ELSE Return(t, Err(b.err))
    /\ UNCHANGED <<config, snapshotRef, updatedAt, prior, nOps>>
    /\ UNCHANGED completed
    /\ UNCHANGED <<life, newRes>>
    /\ UNCHANGED nonEnvVars

\* env.applyHost(ctx) in host mode, env.apply(ctx, container) otherwise
UpdateConfigApply(t) ==
    /\ epc[t] = "uc_apply"
    /\ IF IsHost(config)
       THEN /\ applyHost
            /\ Return(t, Ok(<<>>))
       ELSE \/ /\ Return(t, Err("InfraError"))
               /\ applyFails(tmp[t])
            \/ /\ Resolves(tmp[t])
               /\ apply(tmp[t])
               /\ Return(t, Ok(<<>>))
    /\ UNCHANGED <<config, notes, prior, nOps>>
    /\ UNCHANGED completed
    /\ UNCHANGED <<life, newRes, buildLog>>
    /\ UNCHANGED nonEnvVars

\* ---- Run (host path) ----
\* what the host path records when CombinedOutput could not start the command (the
\* shell or the workdir is missing): err is not an *exec.ExitError, the exit code is
\* set to 1, there is no output and stderr is err.Error()
StartError == <<"fork/exec: no such file or directory">>
NoteNotStarted(cmd) ==
    [command |-> cmd.name, exit |-> 1, stdout |-> <<>>, stderr |-> StartError]

\* sh -c in the worktree, Notes.AddCommand, the combined output; a non-zero exit, and
\* a command that could not be started, are part of the result
RunHost(t) ==
    /\ Start(t)
    /\ IsHost(config)
    /\ \E cmd \in Commands, started \in BOOLEAN :
        LET note == IF started THEN NoteHostCommand(cmd) ELSE NoteNotStarted(cmd) IN
        /\ notes' = Append(notes, note)
        /\ completed' = Append(completed, note)
        /\ Return(t, Ok(combineStdoutStderr(note.stdout, note.stderr)))
    /\ UNCHANGED <<config, snapshotRef, updatedAt, prior>>
    /\ UNCHANGED <<life, newRes, buildLog>>
    /\ UNCHANGED nonEnvVars

\* ---- New ----
\* initialSourceDir: the source tree the Environment is created from
SourceTree == Container(Cfg0, Absent, Absent)

\* what New and Load return: an Environment or none, the error and its message;
\* host is the mode of the Environment that was built
NewResult(env, err, text, host) == [env |-> env, err |-> err, text |-> text, host |-> host]
NothingReturned == NewResult(FALSE, "none", <<>>, FALSE)

\* New: the Environment is built from the config and returned only if buildBase and
\* apply succeeded
New(cfg) ==
    /\ life = "Building"
    /\ config' = cfg
    /\ \/ /\ ~IsHost(cfg)
          /\ containerWithEnvAndSecrets(cfg.env, cfg.secrets).ok
          /\ life' = "Failed"
          /\ newRes' = NewResult(FALSE, "InfraError", <<>>, FALSE)
          /\ buildLog' = <<>>
          /\ UNCHANGED <<notes, snapshotRef, updatedAt>>
       \/ LET b == buildBase(cfg, SourceTree) IN
            /\ notes' = notes \o BuildNotes(cfg, b.ran)
            /\ buildLog' = b.steps
            /\ IF ~b.ok
               THEN /\ life' = "Failed"
                    /\ newRes' = NewResult(FALSE, b.err, b.text, IsHost(cfg))
                    /\ UNCHANGED <<snapshotRef, updatedAt>>
               ELSE IF IsHost(cfg)
               THEN /\ applyHost
                    /\ life' = "Ready"
                    /\ newRes' = NewResult(TRUE, "none", <<>>, TRUE)
               ELSE \/ /\ applyFails(b.container)
                       /\ life' = "Failed"
                       /\ newRes' = NewResult(FALSE, "InfraError", <<>>, FALSE)
                    \/ /\ apply(b.container)
                       /\ life' = "Ready"
                       /\ newRes' = NewResult(TRUE, "none", <<>>, FALSE)
    /\ UNCHANGED <<epc, arg, base, tmp, prior, eres, nOps, completed>>
    /\ UNCHANGED nonEnvVars

\* ---- Load ----
\* persisted states: of a container-mode Environment and of a host-mode one
SavedStates ==
    { [config |-> Cfg0, container |-> Container(Cfg0, "x", Absent), updatedAt |-> 1],
      [config |-> CfgHost, container |-> HostRef, updatedAt |-> 1] }

\* Load / LoadInfo: the state is unmarshalled; with CONTAINER_USE_DEFAULT_HOST=1 the
\* base image of its config is set to "host"
Load(saved, defaultHost) ==
    /\ life = "Building"
    /\ \/ /\ life' = "Failed"
          /\ newRes' = NewResult(FALSE, "InfraError", <<>>, FALSE)
          /\ UNCHANGED <<config, snapshotRef, updatedAt>>
       \/ /\ config' = IF defaultHost THEN [saved.config EXCEPT !.baseImage = "host"]
                        ELSE saved.config
          /\ snapshotRef' = saved.container
          /\ updatedAt' = saved.updatedAt
          /\ life' = "Ready"
          /\ newRes' = NewResult(TRUE, "none", <<>>, IsHost(config'))
    /\ UNCHANGED <<notes, buildLog, epc, arg, base, tmp, prior, eres, nOps, completed>>
    /\ UNCHANGED nonEnvVars

InitEnv ==
    /\ config = Cfg0
    /\ snapshotRef = Container(Cfg0, Absent, Absent)
    /\ updatedAt = 0
    /\ notes = <<>>
    /\ completed = <<>>
    /\ epc = [t \in Threads |-> "idle"]
    /\ arg = [t \in Threads |-> NoArg]
    /\ base = [t \in Threads |-> NoTmp]
    /\ tmp = [t \in Threads |-> NoTmp]
    /\ prior = [t \in Threads |-> Cfg0]
    /\ eres = [t \in Threads |-> Ok(<<>>)]
    /\ nOps = 0
    /\ life = "Ready"
    /\ newRes = NewResult(TRUE, "none", <<>>, FALSE)
    /\ buildLog = <<SourceStep>>

\* before New or Load: there is no Environment yet
InitLife ==
    /\ config = Cfg0
    /\ snapshotRef = NoSnapshot
    /\ updatedAt = 0
    /\ notes = <<>>
    /\ completed = <<>>
    /\ epc = [t \in Threads |-> "idle"]
    /\ arg = [t \in Threads |-> NoArg]
    /\ base = [t \in Threads |-> NoTmp]
    /\ tmp = [t \in Threads |-> NoTmp]
    /\ prior = [t \in Threads |-> Cfg0]
    /\ eres = [t \in Threads |-> Ok(<<>>)]
    /\ nOps = 0
    /\ life = "Building"
    /\ newRes = NothingReturned
    /\ buildLog = <<>>

NextEnv ==
    \/ \E t \in Threads : RunStart(t)
    \/ \E t \in Threads : RunExec(t)
    \/ \E t \in Threads : RunApply(t)
    \/ \E t \in Threads : FileWriteStart(t)
    \/ \E t \in Threads : FileDeleteStart(t)
    \/ \E t \in Threads : FileEditStart(t)
    \/ \E t \in Threads : FileEditPatch(t)
    \/ \E t \in Threads : FileApply(t)
    \/ \E t \in Threads, newConfig \in NewConfigs : UpdateConfigStart(t, newConfig)
    \/ \E t \in Threads : UpdateConfigBuild(t)
    \/ \E t \in Threads : UpdateConfigApply(t)

\* concurrent mutations and read-only operations on a container-mode Environment
NextSnapshot ==
    \E t \in Threads :
        \/ RunStart(t)
        \/ RunExec(t)
        \/ RunApply(t)
        \/ FileWriteStart(t)
        \/ FileDeleteStart(t)
        \/ FileApply(t)
        \/ ReadSnapshot(t)
        \/ ReadReturn(t)

\* the lifecycle of one Environment in either mode, used by one caller at a time
Caller == 1

NextLife ==
    \/ \E cfg \in LifeConfigs : New(cfg)
    \/ \E saved \in SavedStates, defaultHost \in BOOLEAN : Load(saved, defaultHost)
    \/ RunHost(Caller)
    \/ RunStart(Caller)
    \/ RunExec(Caller)
    \/ RunApply(Caller)
    \/ FileWriteStart(Caller)
    \/ FileDeleteStart(Caller)
    \/ FileEditStart(Caller)
    \/ FileEditPatch(Caller)
    \/ FileApply(Caller)
    \/ \E newConfig \in LifeConfigs : UpdateConfigStart(Caller, newConfig)
    \/ UpdateConfigBuild(Caller)
    \/ UpdateConfigApply(Caller)

(***************************************************************************)
(* Background processes (RunBackground, KillBackground), Terminal and      *)
(* Checkpoint                                                              *)
(***************************************************************************)
Pids == 1..NumPids
Ports == 1..NumPorts

\* a process and a port of the host that the Environment did not start or choose
ForeignPid == NumPids
ForeignPort == NumPorts

\* the ports argument of RunBackground: none, port 0 once and twice, a free port and
\* a port that is bound already
PortRequests == {<<>>, <<0>>, <<0, 0>>, <<1>>, <<ForeignPort>>}

\* the command of RunBackground, and the one that is empty after TrimSpace
CmdServe == [name |-> "serve &", exit |-> 0, writes |-> Absent, stdout |-> <<>>, stderr |-> <<>>]
BgCommands == {"serve", " "}

BoundPorts == {b.port : b \in bound}

\* isPortAvailable: a listener can be opened on the port
isPortAvailable(port) == port \notin BoundPorts

\* chooseHostPort: the ports it can return; the requested one if it is positive and
\* available, otherwise any port the host gives to a listener on port 0, which is
\* closed again before the port is returned.  None: the error "failed to allocate
\* port".
chooseHostPort(requested) ==
    IF requested > 0 /\ isPortAvailable(requested) THEN {requested}
    ELSE {port \in Ports : port \notin BoundPorts}

\* the loop over the requested ports: the sequences of chosen ports it can produce
Chosen(ports) ==
    {c \in [1..Len(ports) -> Ports] : \A k \in 1..Len(ports) : c[k] \in chooseHostPort(ports[k])}

\* an entry of State.BackgroundProcesses: the pid, the chosen ports and StartedAt
BackgroundProcess(pid, ports, startedAt) ==
    [pid |-> pid, ports |-> ports, startedAt |-> startedAt]

\* the locals of a call in progress: the pid, the requested and the chosen ports, and
\* what the start of the service comes to
BgArg(pid, requested, ports, outcome) ==
    [pid |-> pid, requested |-> requested, ports |-> ports, outcome |-> outcome]
NoBgArg == BgArg(0, <<>>, <<>>, "none")

\* what RunBackground, KillBackground, Terminal and Checkpoint return: the error and
\* the ports of the endpoint mappings
BgResult(op, err, endpoints) == [op |-> op, err |-> err, endpoints |-> endpoints]
NoBgResult == BgResult("none", "none", <<>>)

StartBg(t) ==
    /\ life = "Ready"
    /\ bpc[t] = "idle"
    /\ nBg < MaxBgOps
    /\ nBg' = nBg + 1

ReturnBg(t, r) ==
    /\ bpc' = [bpc EXCEPT ![t] = "idle"]
    /\ bres' = [bres EXCEPT ![t] = r]
    /\ barg' = [barg EXCEPT ![t] = NoBgArg]

\* ---- RunBackground (host path) ----
\* the empty-command check, the ports, cmd.Start.  A process the Environment has
\* started is never waited for: after its end it keeps its pid, which no later
\* process gets.
RunBackgroundHostOf(t, requests) ==
    /\ StartBg(t)
    /\ IsHost(config)
    /\ \E command \in BgCommands, ports \in requests :
        IF command = " "
        THEN /\ ReturnBg(t, BgResult("RunBackground", "EmptyCommand", <<>>))
             /\ UNCHANGED <<alive, spawned, notes>>
        ELSE IF \E k \in 1..Len(ports) : chooseHostPort(ports[k]) = {}
        THEN /\ ReturnBg(t, BgResult("RunBackground", "InfraError", <<>>))
             /\ UNCHANGED <<alive, spawned, notes>>
        ELSE \E chosen \in Chosen(ports) :
             \/ /\ notes' = Append(notes, NoteNotStarted(CmdServe))
                /\ ReturnBg(t, BgResult("RunBackground", "InfraError", <<>>))
                /\ UNCHANGED <<alive, spawned>>
             \/ \E pid \in Pids \ (alive \cup spawned) :
                /\ alive' = alive \cup {pid}
                /\ spawned' = spawned \cup {pid}
                /\ barg' = [barg EXCEPT ![t] = BgArg(pid, ports, chosen, "none")]
                /\ bpc' = [bpc EXCEPT ![t] = "rb_record"]
                /\ bres' = [bres EXCEPT ![t] = NoBgResult]
                /\ UNCHANGED notes
    /\ UNCHANGED <<backgroundProcesses, bound, signals, updatedAt>>
    /\ UNCHANGED nonBgVars

RunBackgroundHost(t) == RunBackgroundHostOf(t, PortRequests)

\* (mutant) the append is made to a copy of the list read before the calls that are
\* still in progress made theirs
RunBackgroundRecord_Stale(t) ==
    /\ bpc[t] = "rb_record"
    /\ backgroundProcesses' =
           Append(SelectSeq(backgroundProcesses,
                            LAMBDA bp : \A u \in Threads :
                                bpc[u] = "rb_note" => bp.pid # barg[u].pid),
                  BackgroundProcess(barg[t].pid, barg[t].ports, updatedAt + 1))
    /\ updatedAt' = updatedAt + 1
    /\ bpc' = [bpc EXCEPT ![t] = "rb_note"]
    /\ UNCHANGED <<alive, bound, signals, barg, bres, nBg, notes>>
    /\ UNCHANGED spawned
    /\ UNCHANGED nonBgVars

\* under env.mu: the process is appended to State.BackgroundProcesses, StartedAt
\* being the time of the append
RunBackgroundRecord(t) ==
    /\ bpc[t] = "rb_record"
    /\ backgroundProcesses' =
           Append(backgroundProcesses,
                  BackgroundProcess(barg[t].pid, barg[t].ports, updatedAt + 1))
    /\ updatedAt' = updatedAt + 1
    /\ bpc' = [bpc EXCEPT ![t] = "rb_note"]
    /\ UNCHANGED <<alive, bound, signals, barg, bres, nBg, notes>>
    /\ UNCHANGED spawned
    /\ UNCHANGED nonBgVars

\* Notes.AddCommand and the loopback endpoints of the chosen ports
RunBackgroundNote(t) ==
    /\ bpc[t] = "rb_note"
    /\ notes' = Append(notes, NoteCommand(CmdServe))
    /\ ReturnBg(t, BgResult("RunBackground", "none", barg[t].ports))
    /\ UNCHANGED <<backgroundProcesses, alive, bound, signals, nBg, updatedAt>>
    /\ UNCHANGED spawned
    /\ UNCHANGED nonBgVars

\* a started process binds the ports it was given that are still free
ProcessBinds(pid) ==
    /\ pid \in alive
    /\ \E k \in 1..Len(backgroundProcesses) :
        /\ backgroundProcesses[k].pid = pid
        /\ LET mine == {backgroundProcesses[k].ports[j] : j \in 1..Len(backgroundProcesses[k].ports)}
               free == {port \in mine : port \notin BoundPorts}
           IN /\ free # {}
              /\ bound' = bound \cup {[port |-> port, pid |-> pid] : port \in free}
    /\ UNCHANGED <<backgroundProcesses, alive, signals, bpc, barg, bres, nBg, updatedAt, notes>>
    /\ UNCHANGED spawned
    /\ UNCHANGED nonBgVars

\* ---- RunBackground (container path) ----
\* the outcomes of AsService(...).Start(startCtx): the service started, its command
\* exited (ExecError), the start deadline passed, the runtime failed
ServiceOutcomes == {"started", "ExecError", "DeadlineExceeded", "InfraError"}

NoteTimeout ==
    [command |-> CmdServe.name, exit |-> 137, stdout |-> <<>>,
     stderr |-> <<"service failed to start within timeout">>]
NoteExited ==
    [command |-> CmdServe.name, exit |-> 1, stdout |-> <<>>, stderr |-> <<"boom">>]

\* (mutant) the passed deadline is returned like any other error of the runtime
StartService_TimeoutUnlogged(outcome) ==
    CASE outcome = "started" -> [err |-> "none", notes |-> <<NoteCommand(CmdServe)>>]
      [] outcome = "ExecError" -> [err |-> "ExitError", notes |-> <<NoteExited>>]
      [] OTHER -> [err |-> "InfraError", notes |-> <<>>]

\* what RunBackground makes of the outcome: the error it returns and the entries it
\* adds to Notes
StartService(outcome) ==
    CASE outcome = "started" -> [err |-> "none", notes |-> <<NoteCommand(CmdServe)>>]
      [] outcome = "ExecError" -> [err |-> "ExitError", notes |-> <<NoteExited>>]
      [] outcome = "DeadlineExceeded" -> [err |-> "ServiceStartTimeout", notes |-> <<NoteTimeout>>]
      [] OTHER -> [err |-> "InfraError", notes |-> <<>>]

\* env.container(), WithExposedPort and the call of AsService(...).Start(startCtx),
\* which returns when the service runs, when it failed or at the deadline
RunBackgroundContainer(t) ==
    /\ StartBg(t)
    /\ ~IsHost(config)
    /\ \E ports \in PortRequests, outcome \in ServiceOutcomes :
        barg' = [barg EXCEPT ![t] = BgArg(0, ports, ports, outcome)]
    /\ bpc' = [bpc EXCEPT ![t] = "rb_service"]
    /\ bres' = [bres EXCEPT ![t] = NoBgResult]
    /\ UNCHANGED <<backgroundProcesses, alive, bound, signals, updatedAt, notes>>
    /\ UNCHANGED spawned
    /\ UNCHANGED nonBgVars

\* the return of Start: Notes.AddCommand and the error, or on to the tunnels
RunBackgroundService(t) ==
    /\ bpc[t] = "rb_service"
    /\ LET r == StartService(barg[t].outcome) IN
        /\ notes' = notes \o r.notes
        /\ IF r.err = "none"
           THEN /\ bpc' = [bpc EXCEPT ![t] = "rb_tunnel"]
                /\ UNCHANGED <<barg, bres>>
           ELSE ReturnBg(t, BgResult("RunBackground", r.err, <<>>))
    /\ UNCHANGED <<backgroundProcesses, alive, bound, signals, nBg, updatedAt>>
    /\ UNCHANGED spawned
    /\ UNCHANGED nonBgVars

\* the tunnels and the endpoints of the requested ports
RunBackgroundTunnel(t) ==
    /\ bpc[t] = "rb_tunnel"
    /\ \/ ReturnBg(t, BgResult("RunBackground", "none", barg[t].ports))
       \/ /\ barg[t].ports # <<>>
          /\ ReturnBg(t, BgResult("RunBackground", "InfraError", <<>>))
    /\ UNCHANGED <<backgroundProcesses, alive, bound, signals, nBg, updatedAt, notes>>
    /\ UNCHANGED spawned
    /\ UNCHANGED nonBgVars

\* ---- KillBackground ----
\* (mutant) the mode is not looked at
KillSupported_AnyMode(cfg) == TRUE

\* KillBackground is for host mode only
KillSupported(cfg) == IsHost(cfg)

\* a signal reaches the process with that pid, if there is one; SIGKILL ends it,
\* SIGTERM ends it unless it ignores the signal
Signal(pid, sig) == signals' = Append(signals, [pid |-> pid, sig |-> sig])
Ends(pid) ==
    /\ alive' = alive \ {pid}
    /\ bound' = {b \in bound : b.pid # pid}

\* (mutant) the forced signal is sent at once
KillBackground_ForceFirst(t) ==
    /\ StartBg(t)
    /\ \E pid \in Pids :
        IF ~KillSupported(config)
        THEN /\ ReturnBg(t, BgResult("KillBackground", "UnsupportedOperation", <<>>))
             /\ UNCHANGED <<signals, alive, bound>>
        ELSE /\ Signal(pid, "SIGKILL")
             /\ Ends(pid)
             /\ barg' = [barg EXCEPT ![t] = BgArg(pid, <<>>, <<>>, "none")]
             /\ bpc' = [bpc EXCEPT ![t] = "kb_grace"]
             /\ bres' = [bres EXCEPT ![t] = NoBgResult]
    /\ UNCHANGED <<backgroundProcesses, updatedAt, notes>>
    /\ UNCHANGED spawned
    /\ UNCHANGED nonBgVars

\* the mode check, os.FindProcess (which finds every pid) and SIGTERM
KillBackground(t) ==
    /\ StartBg(t)
    /\ \E pid \in Pids :
        IF ~KillSupported(config)
        THEN /\ ReturnBg(t, BgResult("KillBackground", "UnsupportedOperation", <<>>))
             /\ UNCHANGED <<signals, alive, bound>>
        ELSE /\ Signal(pid, "SIGTERM")
             /\ Ends(pid) \/ UNCHANGED <<alive, bound>>
             /\ barg' = [barg EXCEPT ![t] = BgArg(pid, <<>>, <<>>, "none")]
             /\ bpc' = [bpc EXCEPT ![t] = "kb_grace"]
             /\ bres' = [bres EXCEPT ![t] = NoBgResult]
    /\ UNCHANGED <<backgroundProcesses, updatedAt, notes>>
    /\ UNCHANGED spawned
    /\ UNCHANGED nonBgVars

\* after the grace period: SIGKILL
KillBackgroundForce(t) ==
    /\ bpc[t] = "kb_grace"
    /\ Signal(barg[t].pid, "SIGKILL")
    /\ Ends(barg[t].pid)
    /\ bpc' = [bpc EXCEPT ![t] = "kb_remove"]
    /\ UNCHANGED <<backgroundProcesses, barg, bres, nBg, updatedAt, notes>>
    /\ UNCHANGED spawned
    /\ UNCHANGED nonBgVars

\* (mutant) the list of background processes is one list for every Environment
KillBackgroundRemove_EveryEnvironment(t) ==
    /\ bpc[t] = "kb_remove"
    /\ backgroundProcesses' =
           SelectSeq(backgroundProcesses, LAMBDA bp : bp.pid # barg[t].pid)
    /\ peer' = [peer EXCEPT !.backgroundProcesses =
                                SelectSeq(@, LAMBDA bp : bp.pid # barg[t].pid)]
    /\ updatedAt' = updatedAt + 1
    /\ bpc' = [bpc EXCEPT ![t] = "kb_note"]
    /\ UNCHANGED <<alive, bound, signals, barg, bres, nBg, notes, spawned>>
    /\ UNCHANGED restVars

\* under env.mu: the entries with that pid are filtered out
KillBackgroundRemove(t) ==
    /\ bpc[t] = "kb_remove"
    /\ backgroundProcesses' =
           SelectSeq(backgroundProcesses, LAMBDA bp : bp.pid # barg[t].pid)
    /\ updatedAt' = updatedAt + 1
    /\ bpc' = [bpc EXCEPT ![t] = "kb_note"]
    /\ UNCHANGED <<alive, bound, signals, barg, bres, nBg, notes>>
    /\ UNCHANGED spawned
    /\ UNCHANGED nonBgVars

\* Notes.Add("Stopped background process PID=%d") and the nil return
KillBackgroundNote(t) ==
    /\ bpc[t] = "kb_note"
    /\ notes' = Append(notes, NoteText("Stopped background process"))
    /\ ReturnBg(t, BgResult("KillBackground", "none", <<>>))
    /\ UNCHANGED <<backgroundProcesses, alive, bound, signals, nBg, updatedAt>>
    /\ UNCHANGED spawned
    /\ UNCHANGED nonBgVars

\* ---- Terminal and Checkpoint ----
\* host mode: the error; container mode: the runtime opens the terminal, or
\* publishes the snapshot, or fails
Terminal(t) ==
    /\ StartBg(t)
    /\ IF IsHost(config)
       THEN ReturnBg(t, BgResult("Terminal", "UnsupportedOperation", <<>>))
       ELSE \E e \in {"none", "InfraError"} : ReturnBg(t, BgResult("Terminal", e, <<>>))
    /\ UNCHANGED <<backgroundProcesses, alive, bound, signals, updatedAt, notes>>
    /\ UNCHANGED spawned
    /\ UNCHANGED nonBgVars

Checkpoint(t) ==
    /\ StartBg(t)
    /\ IF IsHost(config)
       THEN ReturnBg(t, BgResult("Checkpoint", "UnsupportedOperation", <<>>))
       ELSE \E e \in {"none", "InfraError"} : ReturnBg(t, BgResult("Checkpoint", e, <<>>))
    /\ UNCHANGED <<backgroundProcesses, alive, bound, signals, updatedAt, notes>>
    /\ UNCHANGED spawned
    /\ UNCHANGED nonBgVars

\* no call has been made: one foreign process runs on the host and holds a port
NoBackground ==
    /\ backgroundProcesses = <<>>
    /\ alive = {ForeignPid}
    /\ spawned = {}
    /\ bound = {[port |-> ForeignPort, pid |-> ForeignPid]}
    /\ signals = <<>>
    /\ bpc = [t \in Threads |-> "idle"]
    /\ barg = [t \in Threads |-> NoBgArg]
    /\ bres = [t \in Threads |-> NoBgResult]
    /\ nBg = 0

\* the Environment as New returned it for the config, after the RunBackground calls
\* that recorded the processes procs, which still run
InitBgOf(cfg, procs) ==
    /\ LET b == buildBase(cfg, SourceTree) IN
        /\ config = cfg
        /\ snapshotRef = IF IsHost(cfg) THEN HostRef ELSE b.container
        /\ notes = BuildNotes(cfg, b.ran) \o [k \in 1..Len(procs) |-> NoteCommand(CmdServe)]
        /\ buildLog = b.steps
        /\ newRes = NewResult(TRUE, "none", <<>>, IsHost(cfg))
    /\ updatedAt = Len(procs)
    /\ completed = <<>>
    /\ epc = [t \in Threads |-> "idle"]
    /\ arg = [t \in Threads |-> NoArg]
    /\ base = [t \in Threads |-> NoTmp]
    /\ tmp = [t \in Threads |-> NoTmp]
    /\ prior = [t \in Threads |-> Cfg0]
    /\ eres = [t \in Threads |-> Ok(<<>>)]
    /\ nOps = 0
    /\ life = "Ready"
    /\ backgroundProcesses = procs
    /\ alive = {procs[k].pid : k \in 1..Len(procs)} \cup {ForeignPid}
    /\ spawned = {procs[k].pid : k \in 1..Len(procs)}
    /\ bound = {[port |-> ForeignPort, pid |-> ForeignPid]}
    /\ signals = <<>>
    /\ bpc = [t \in Threads |-> "idle"]
    /\ barg = [t \in Threads |-> NoBgArg]
    /\ bres = [t \in Threads |-> NoBgResult]
    /\ nBg = 0

\* the Environment as New returned it, for a host-mode or a container-mode config
InitBg == \E cfg \in {Cfg0, CfgHost} : InitBgOf(cfg, <<>>)

\* a host-mode Environment as New returned it
InitBgHost == InitBgOf(CfgHost, <<>>)

\* a host-mode Environment after two RunBackground calls of commands that ask for
\* no port
InitBgStarted ==
    InitBgOf(CfgHost, <<BackgroundProcess(1, <<>>, 1), BackgroundProcess(2, <<>>, 2)>>)

\* concurrent callers of RunBackground and KillBackground on a host-mode Environment;
\* the commands ask for no port
NextBgHost ==
    \E t \in Threads :
        \/ RunBackgroundHostOf(t, {<<>>})
        \/ RunBackgroundRecord(t)
        \/ RunBackgroundNote(t)
        \/ KillBackground(t)
        \/ KillBackgroundForce(t)
        \/ KillBackgroundRemove(t)
        \/ KillBackgroundNote(t)

\* one caller of RunBackground and KillBackground on a host-mode Environment
NextKill ==
    \/ RunBackgroundHost(Caller)
    \/ RunBackgroundRecord(Caller)
    \/ RunBackgroundNote(Caller)
    \/ \E pid \in Pids : ProcessBinds(pid)
    \/ KillBackground(Caller)
    \/ KillBackgroundForce(Caller)
    \/ KillBackgroundRemove(Caller)
    \/ KillBackgroundNote(Caller)

\* ---- a second Environment on the same host ----
\* what New returned for it: a host-mode Environment
PeerEnvironment ==
    [config |-> CfgHost, snapshotRef |-> HostRef, backgroundProcesses |-> <<>>,
     notes |-> BuildNotes(CfgHost, buildBase(CfgHost, SourceTree).ran)]
NoPeer == peer = PeerEnvironment

\* its operations write its own fields; its processes are processes of the same host
PeerStart ==
    /\ nBg < MaxBgOps
    /\ nBg' = nBg + 1
    /\ UNCHANGED <<backgroundProcesses, spawned, bpc, barg, bres, updatedAt, notes>>
    /\ UNCHANGED restVars

PeerRun ==
    /\ PeerStart
    /\ \E cmd \in Commands :
        peer' = [peer EXCEPT !.notes = Append(@, NoteHostCommand(cmd))]
    /\ UNCHANGED <<alive, bound, signals>>

PeerUpdateConfig ==
    /\ PeerStart
    /\ \E cfg \in {CfgHost, CfgHostBad} :
        peer' = [peer EXCEPT !.config = cfg,
                             !.notes = @ \o BuildNotes(cfg, buildBase(cfg, SourceTree).ran)]
    /\ UNCHANGED <<alive, bound, signals>>

PeerRunBackground ==
    /\ PeerStart
    /\ \E pid \in Pids \ (alive \cup spawned) :
        /\ alive' = alive \cup {pid}
        /\ peer' = [peer EXCEPT
                      !.backgroundProcesses =
                          Append(@, BackgroundProcess(pid, <<>>, Len(peer.notes))),
                      !.notes = Append(@, NoteCommand(CmdServe))]
    /\ UNCHANGED <<bound, signals>>

PeerKillBackground ==
    /\ PeerStart
    /\ \E pid \in Pids :
        /\ signals' = signals \o <<[pid |-> pid, sig |-> "SIGTERM"], [pid |-> pid, sig |-> "SIGKILL"]>>
        /\ Ends(pid)
        /\ peer' = [peer EXCEPT
                      !.backgroundProcesses = SelectSeq(@, LAMBDA bp : bp.pid # pid),
                      !.notes = Append(@, NoteText("Stopped background process"))]

\* the operations of one caller of a host-mode Environment and those of the callers
\* of the second Environment
NextPeers ==
    \/ RunBackgroundHostOf(Caller, {<<>>})
    \/ RunBackgroundRecord(Caller)
    \/ RunBackgroundNote(Caller)
    \/ KillBackground(Caller)
    \/ KillBackgroundForce(Caller)
    \/ KillBackgroundRemove(Caller)
    \/ KillBackgroundNote(Caller)
    \/ PeerRun
    \/ PeerUpdateConfig
    \/ PeerRunBackground
    \/ PeerKillBackground

\* one caller at a time: the operations of this component are called one by one
NextBg ==
    \/ RunBackgroundHost(Caller)
    \/ RunBackgroundRecord(Caller)
    \/ RunBackgroundNote(Caller)
    \/ \E pid \in Pids : ProcessBinds(pid)
    \/ RunBackgroundContainer(Caller)
    \/ RunBackgroundService(Caller)
    \/ RunBackgroundTunnel(Caller)
    \/ KillBackground(Caller)
    \/ KillBackgroundForce(Caller)
    \/ KillBackgroundRemove(Caller)
    \/ KillBackgroundNote(Caller)
    \/ Terminal(Caller)
    \/ Checkpoint(Caller)

(***************************************************************************)
(* package notebook: NotebookEnvironment.ExecuteCell                       *)
(***************************************************************************)
Notebooks == 1..NumNotebooks

\* nb.mu is unlocked
NoHolder == 0

\* (mutant) ExecuteCell goes on without waiting for nb.mu
MutexFree_Always(holder) == TRUE

\* nb.mu.Lock() returns only when no one holds the mutex
MutexFree(holder) == holder = NoHolder

CellArg(nb, loaded) == [nb |-> nb, loaded |-> loaded]
NoCellArg == CellArg(0, 0)

\* (*Output, error) of ExecuteCell
CellResult(nb, err) == [nb |-> nb, err |-> err]
NoCellResult == CellResult(0, "none")

\* the deferred nb.mu.Unlock() and the return
ReturnCell(t, err) ==
    /\ mu' = [mu EXCEPT ![xarg[t].nb] = NoHolder]
    /\ xpc' = [xpc EXCEPT ![t] = "idle"]
    /\ xres' = [xres EXCEPT ![t] = CellResult(xarg[t].nb, err)]
    /\ xarg' = [xarg EXCEPT ![t] = NoCellArg]

\* nb.mu.Lock()
ExecuteCellLock(t) ==
    /\ xpc[t] = "idle"
    /\ nCells < MaxCells
    /\ \E nb \in Notebooks :
        /\ MutexFree(mu[nb])
        /\ mu' = [mu EXCEPT ![nb] = t]
        /\ xarg' = [xarg EXCEPT ![t] = CellArg(nb, 0)]
    /\ xpc' = [xpc EXCEPT ![t] = "exec"]
    /\ nCells' = nCells + 1
    /\ UNCHANGED <<executionCount, xres, succeeded>>
    /\ UNCHANGED nonCellVars

\* WithNewFile, WithExec and Stdout: the script ran, or the error is returned
ExecuteCellExec(t) ==
    /\ xpc[t] = "exec"
    /\ \/ /\ xpc' = [xpc EXCEPT ![t] = "load"]
          /\ UNCHANGED <<mu, xarg, xres>>
       \/ ReturnCell(t, "ExecError")
    /\ UNCHANGED <<executionCount, succeeded, nCells>>
    /\ UNCHANGED nonCellVars

\* nb.KernelState.ExecutionCount++ : the load
ExecuteCellLoad(t) ==
    /\ xpc[t] = "load"
    /\ xarg' = [xarg EXCEPT ![t].loaded = executionCount[xarg[t].nb]]
    /\ xpc' = [xpc EXCEPT ![t] = "store"]
    /\ UNCHANGED <<executionCount, mu, xres, succeeded, nCells>>
    /\ UNCHANGED nonCellVars

\* the store of the incremented count, saveKernelState (whose error is only logged)
\* and the return of the output
ExecuteCellStore(t) ==
    /\ xpc[t] = "store"
    /\ executionCount' = [executionCount EXCEPT ![xarg[t].nb] = xarg[t].loaded + 1]
    /\ succeeded' = [succeeded EXCEPT ![xarg[t].nb] = @ + 1]
    /\ ReturnCell(t, "none")
    /\ UNCHANGED nCells
    /\ UNCHANGED nonCellVars

\* no ExecuteCell call has been made on the notebooks Create returned
NoCells ==
    /\ executionCount = [nb \in Notebooks |-> 0]
    /\ mu = [nb \in Notebooks |-> NoHolder]
    /\ xpc = [t \in Threads |-> "idle"]
    /\ xarg = [t \in Threads |-> NoCellArg]
    /\ xres = [t \in Threads |-> NoCellResult]
    /\ succeeded = [nb \in Notebooks |-> 0]
    /\ nCells = 0

(***************************************************************************)
(* package notebook: ParallelExecutor                                      *)
(***************************************************************************)
\* the workers Start has spawned
Workers == 1..MaxParallel

\* the buffer of pe.queue
QueueCap == MaxParallel * 2

ExecutionRequest(nb, from) == [nb |-> nb, from |-> from]
NoRequest == ExecutionRequest(0, 0)

\* the goroutines inside the assignment pe.pool[nb.ID] = nb
Assigning == {t \in Threads : rpc[t] = "assign"}

\* the executor is running: the Go runtime has not ended the program
Running == ~fatal

\* RegisterNotebook: the map assignment begins.  pe.pool is a plain map and nothing
\* orders this write with the other accesses: an assignment that another goroutine's
\* assignment or a worker's lookup overlaps is a data race.
RegisterNotebook(t) ==
    /\ Running
    /\ rpc[t] = "idle"
    /\ nPool < MaxPoolOps
    /\ \E nb \in Notebooks : rarg' = [rarg EXCEPT ![t] = nb]
    /\ rpc' = [rpc EXCEPT ![t] = "assign"]
    /\ raced' = [u \in Threads |->
                    IF Assigning # {} /\ (u = t \/ u \in Assigning) THEN TRUE
                    ELSE IF u = t THEN FALSE ELSE raced[u]]
    /\ nPool' = nPool + 1
    /\ UNCHANGED <<pool, registered, fatal, queue, wpc, wreq, pres, stop>>
    /\ UNCHANGED nonPoolVars

\* the map assignment ends and RegisterNotebook returns.  After a data race the
\* runtime may have thrown "concurrent map writes", or the map may have lost the
\* entry, or the entry is there.
RegisterNotebookReturn(t) ==
    /\ Running
    /\ rpc[t] = "assign"
    /\ \/ /\ pool' = pool \cup {rarg[t]}
          /\ UNCHANGED fatal
       \/ /\ raced[t]
          /\ UNCHANGED <<pool, fatal>>
       \/ /\ raced[t]
          /\ fatal' = TRUE
          /\ UNCHANGED pool
    /\ registered' = registered \cup {rarg[t]}
    /\ rpc' = [rpc EXCEPT ![t] = "idle"]
    /\ UNCHANGED <<rarg, raced, queue, wpc, wreq, pres, stop, nPool>>
    /\ UNCHANGED nonPoolVars

\* Execute: the request is sent on pe.queue and the caller waits for the result
Execute(t) ==
    /\ Running
    /\ rpc[t] = "idle"
    /\ nPool < MaxPoolOps
    /\ stop = "open"
    /\ Len(queue) < QueueCap
    /\ \E nb \in Notebooks : queue' = Append(queue, ExecutionRequest(nb, t))
    /\ rpc' = [rpc EXCEPT ![t] = "await"]
    /\ pres' = [pres EXCEPT ![t] = "none"]
    /\ nPool' = nPool + 1
    /\ UNCHANGED <<pool, rarg, raced, registered, fatal, wpc, wreq, stop>>
    /\ UNCHANGED nonPoolVars

\* req.Result <- result, received by the caller of Execute
Reply(w, err) ==
    /\ pres' = [pres EXCEPT ![wreq'[w].from] = err]
    /\ rpc' = [rpc EXCEPT ![wreq'[w].from] = "idle"]

\* worker: a request is received and looked up in pe.pool.  A lookup that overlaps
\* an assignment is a data race: it may find the notebook or not, or the runtime
\* throws "concurrent map read and map write".
WorkerLookup(w) ==
    /\ Running
    /\ wpc[w] = "idle"
    /\ queue # <<>>
    /\ queue' = Tail(queue)
    /\ wreq' = [wreq EXCEPT ![w] = Head(queue)]
    /\ \E found \in BOOLEAN, thrown \in BOOLEAN :
        /\ Assigning = {} => (found <=> Head(queue).nb \in pool) /\ ~thrown
        /\ fatal' = thrown
        /\ IF thrown
           THEN UNCHANGED <<wpc, pres, rpc>>
           ELSE IF found
           THEN /\ wpc' = [wpc EXCEPT ![w] = "execute"]
                /\ UNCHANGED <<pres, rpc>>
           ELSE /\ Reply(w, "NotFound")
                /\ UNCHANGED wpc
    /\ raced' = [u \in Threads |-> raced[u] \/ u \in Assigning]
    /\ UNCHANGED <<pool, rarg, registered, stop, nPool>>
    /\ UNCHANGED nonPoolVars

\* worker: nb.ExecuteCell and the result.  ExecuteCell runs under nb.mu, from Lock
\* to the deferred Unlock.
WorkerExecute(w) ==
    /\ Running
    /\ wpc[w] = "execute"
    /\ MutexFree(mu[wreq[w].nb])
    /\ wreq' = wreq
    /\ \/ /\ executionCount' = [executionCount EXCEPT ![wreq[w].nb] = @ + 1]
          /\ succeeded' = [succeeded EXCEPT ![wreq[w].nb] = @ + 1]
          /\ Reply(w, "ok")
       \/ /\ UNCHANGED <<executionCount, succeeded>>
          /\ Reply(w, "ExecError")
    /\ wpc' = [wpc EXCEPT ![w] = "idle"]
    /\ UNCHANGED <<pool, rarg, raced, registered, fatal, queue, stop, nPool>>
    /\ UNCHANGED <<mu, xpc, xarg, xres, nCells, toolVars>>
    /\ UNCHANGED nonNotebookVars

\* Execute on a queue Stop has closed: the send panics ("send on closed channel"),
\* whether the caller arrives after the close or was blocked on a full queue
ExecuteClosed(t) ==
    /\ Running
    /\ rpc[t] = "idle"
    /\ nPool < MaxPoolOps
    /\ stop # "open"
    /\ pres' = [pres EXCEPT ![t] = "panic"]
    /\ nPool' = nPool + 1
    /\ UNCHANGED <<pool, rpc, rarg, raced, registered, fatal, queue, wpc, wreq, stop>>
    /\ UNCHANGED nonPoolVars

\* Start: wg.Add(1) and go pe.worker(ctx), maxParallel times
ParallelExecutorStart ==
    /\ Running
    /\ \A w \in Workers : wpc[w] = "off"
    /\ wpc' = [w \in Workers |-> "idle"]
    /\ UNCHANGED <<pool, rpc, rarg, raced, registered, fatal, queue, wreq, pres, stop, nPool>>
    /\ UNCHANGED nonPoolVars

\* worker: the range over pe.queue ends when the queue is closed and drained, and the
\* deferred wg.Done runs
WorkerExit(w) ==
    /\ Running
    /\ wpc[w] = "idle"
    /\ stop # "open"
    /\ queue = <<>>
    /\ wpc' = [wpc EXCEPT ![w] = "exited"]
    /\ UNCHANGED <<pool, rpc, rarg, raced, registered, fatal, queue, wreq, pres, stop, nPool>>
    /\ UNCHANGED nonPoolVars

\* Stop: close(pe.queue)
ParallelExecutorStop ==
    /\ Running
    /\ stop = "open"
    /\ stop' = "closed"
    /\ UNCHANGED <<pool, rpc, rarg, raced, registered, fatal, queue, wpc, wreq, pres, nPool>>
    /\ UNCHANGED nonPoolVars

\* Stop: pe.wg.Wait() returns when no started worker is left
ParallelExecutorStopReturn ==
    /\ Running
    /\ stop = "closed"
    /\ \A w \in Workers : wpc[w] \in {"off", "exited"}
    /\ stop' = "returned"
    /\ UNCHANGED <<pool, rpc, rarg, raced, registered, fatal, queue, wpc, wreq, pres, nPool>>
    /\ UNCHANGED nonPoolVars

\* NewParallelExecutor and Start: an empty pool, an empty queue, the workers waiting
NoPool ==
    /\ stop = "open"
    /\ pool = {}
    /\ rpc = [t \in Threads |-> "idle"]
    /\ rarg = [t \in Threads |-> 0]
    /\ raced = [t \in Threads |-> FALSE]
    /\ registered = {}
    /\ fatal = FALSE
    /\ queue = <<>>
    /\ wpc = [w \in Workers |-> "idle"]
    /\ wreq = [w \in Workers |-> NoRequest]
    /\ pres = [t \in Threads |-> "none"]
    /\ nPool = 0

(***************************************************************************)
(* package notebook: the MCP tool handlers                                 *)
(***************************************************************************)
\* NotebookTools
ToolNames == {"notebook_create", "notebook_execute_cell", "notebook_execute_all",
              "notebook_get_state", "notebook_parallel_run"}

\* request.Params: not JSON at all; JSON with a field of the wrong type; an object
\* without the required fields; a well-formed request (whose notebook_id no one has
\* registered); a notebook_parallel_run request with an empty notebooks list, with
\* one notebook, and with a negative max_parallel
Requests == {"malformed", "wrong type", "missing required", "well-formed",
             "empty notebooks", "one notebook", "negative max_parallel"}

\* json.Unmarshal(request.Params, &params): the error, or the params with the zero
\* value for every field the object does not have
Unmarshal(request) ==
    IF request \in {"malformed", "wrong type"} THEN [ok |-> FALSE, params |-> "none"]
    ELSE [ok |-> TRUE, params |-> request]

\* what a handler comes to: the result it returns (a text or an error result), its
\* error return, or the panic that ends it
Returns(result) == [result |-> result, err |-> "none", panic |-> FALSE]
Panics == [result |-> "nil", err |-> "none", panic |-> TRUE]

\* &NotebookEnvironment{}: the placeholder of the handlers, every field nil
Placeholder == [Environment |-> "nil", KernelState |-> "nil", kernelContainer |-> "nil"]

\* the NotebookEnvironment Create builds
Created == [Environment |-> "set", KernelState |-> "set", kernelContainer |-> "set"]

\* Create: initializeKernel calls dag.Container() on the package's client
CreateNotebook(client) == IF client = "nil" THEN Panics ELSE Returns("notebook")

\* ExecuteCell reads nb.ID, a field of the embedded *Environment, to log the call
ExecuteCellOf(nb) ==
    IF nb.Environment = "nil" THEN {Panics} ELSE {Returns("output"), Returns("error")}

\* ExecuteNotebook: loadNotebook reads nb.Worktree, a field of the embedded
\* *Environment; the file may be missing; the cells are executed one by one
ExecuteNotebookOf(nb) ==
    IF nb.Environment = "nil" THEN {Panics} ELSE {Returns("outputs"), Returns("error")}

\* GetState returns nb.KernelState, which json.Marshal writes as null when it is nil
GetStateOf(nb) == Returns("state")

\* NewParallelExecutor: make(chan *ExecutionRequest, maxParallel*2)
NewParallelExecutorOf(maxParallel) == IF maxParallel < 0 THEN Panics ELSE Returns("executor")

\* max_parallel of the request, 0 when it is not given
MaxParallelOf(params) == IF params = "negative max_parallel" THEN -1 ELSE 0

\* the notebooks of the request
NotebooksOf(params) == IF params = "one notebook" THEN 1 ELSE 0

\* the outcomes of Handler(ctx, request) of the tool, with the package's dagger
\* client as it is
HandlerOutcomes(tool, request, client) ==
    LET u == Unmarshal(request) IN
    IF ~u.ok THEN {Returns("error")}
    ELSE CASE tool = "notebook_create" ->
                IF CreateNotebook(client).panic THEN {Panics} ELSE {Returns("text")}
           [] tool = "notebook_execute_cell" ->
                {IF o.panic THEN Panics
                 ELSE IF o.result = "error" THEN Returns("error") ELSE Returns("text")
                 : o \in ExecuteCellOf(Placeholder)}
           [] tool = "notebook_execute_all" ->
                {IF o.panic THEN Panics
                 ELSE IF o.result = "error" THEN Returns("error") ELSE Returns("text")
                 : o \in ExecuteNotebookOf(Placeholder)}
           [] tool = "notebook_get_state" ->
                {Returns("text")}
           [] tool = "notebook_parallel_run" ->
                LET n == IF MaxParallelOf(u.params) = 0 THEN 5 ELSE MaxParallelOf(u.params) IN
                IF NewParallelExecutorOf(n).panic THEN {Panics}
                ELSE IF NotebooksOf(u.params) = 0 THEN {Returns("text")}
                ELSE IF CreateNotebook(client).panic THEN {Panics}
                ELSE {IF o.panic THEN Panics ELSE Returns("text")
                      : o \in ExecuteNotebookOf(Created)}

ToolCall(tool, request, outcome) == [tool |-> tool, request |-> request, outcome |-> outcome]

\* Initialize(client)
Initialize ==
    /\ dag = "nil"
    /\ dag' = "client"
    /\ UNCHANGED toolCalls
    /\ UNCHANGED nonToolVars

\* a tool is called
CallTool(tool) ==
    /\ Len(toolCalls) < MaxToolCalls
    /\ \E request \in Requests :
        \E o \in HandlerOutcomes(tool, request, dag) :
            toolCalls' = Append(toolCalls, ToolCall(tool, request, o))
    /\ UNCHANGED dag
    /\ UNCHANGED nonToolVars

\* the package as loaded: var dag *dagger.Client
NoTools == dag = "nil" /\ toolCalls = <<>>

NoNotebook == NoCells /\ NoPool /\ NoTools

InitCell == NoNotebook

InitPool == NoNotebook

InitTools == NoNotebook

NextTools ==
    \/ Initialize
    \/ \E tool \in ToolNames : CallTool(tool)

\* NewParallelExecutor, and the notebooks in registeredNow registered by the one
\* goroutine that made the executor: Start has not been called
NewParallelExecutor(registeredNow) ==
    /\ NoCells
    /\ NoTools
    /\ pool = registeredNow
    /\ registered = registeredNow
    /\ rpc = [t \in Threads |-> "idle"]
    /\ rarg = [t \in Threads |-> 0]
    /\ raced = [t \in Threads |-> FALSE]
    /\ fatal = FALSE
    /\ queue = <<>>
    /\ wpc = [w \in Workers |-> "off"]
    /\ wreq = [w \in Workers |-> NoRequest]
    /\ pres = [t \in Threads |-> "none"]
    /\ stop = "open"
    /\ nPool = 0

InitExecutor == NewParallelExecutor({1})

\* Start, Stop and Execute called in any order on an executor whose pool is no longer
\* written
NextExecutor ==
    \/ ParallelExecutorStart
    \/ ParallelExecutorStop
    \/ ParallelExecutorStopReturn
    \/ \E t \in Threads : Execute(t)
    \/ \E t \in Threads : ExecuteClosed(t)
    \/ \E w \in Workers : WorkerLookup(w)
    \/ \E w \in Workers : WorkerExecute(w)
    \/ \E w \in Workers : WorkerExit(w)

NextPool ==
    \/ \E t \in Threads : RegisterNotebook(t)
    \/ \E t \in Threads : RegisterNotebookReturn(t)
    \/ \E t \in Threads : Execute(t)
    \/ \E w \in Workers : WorkerLookup(w)
    \/ \E w \in Workers : WorkerExecute(w)

NextCell ==
    \/ \E t \in Threads : ExecuteCellLock(t)
    \/ \E t \in Threads : ExecuteCellExec(t)
    \/ \E t \in Threads : ExecuteCellLoad(t)
    \/ \E t \in Threads : ExecuteCellStore(t)

(***************************************************************************)
(* FileEdit: the occurrence scan, the match ids and the replacement        *)
(* Strings are sequences of one-character strings.                         *)
(***************************************************************************)
Alphabet == {"a", "b"}

RECURSIVE StringsOfLen(_)
StringsOfLen(n) ==
    IF n = 0 THEN {<<>>}
    ELSE {Append(s, c) : s \in StringsOfLen(n - 1), c \in Alphabet}

StringsUpTo(n) == UNION {StringsOfLen(k) : k \in 0..n}

\* the path FileEdit is called with
TargetFile == <<"f">>

\* contents[from:] and contents[from:to] of Go, 0-based
SliceFrom(str, from) == SubSeq(str, from + 1, Len(str))
Slice(str, from, to) == SubSeq(str, from + 1, to)

\* strings.Index: the first index at which substr occurs in str, or -1
Index(str, substr) ==
    LET at == {i \in 0..(Len(str) - Len(substr)) : Slice(str, i, i + Len(substr)) = substr}
    IN IF at = {} THEN -1 ELSE CHOOSE i \in at : \A j \in at : i <= j

\* where the scan loop resumes after a match at actualIndex
NextCursor(actualIndex, search) == actualIndex + 1

\* the scan loop of FileEdit from cursor on: [panic, matches]; contents[cursor:]
\* with cursor > len(contents) is a slice-bounds panic
RECURSIVE Scan(_, _, _, _)
Scan(contents, search, cursor, matches) ==
    IF cursor > Len(contents) THEN [panic |-> TRUE, matches |-> matches]
    ELSE LET index == Index(SliceFrom(contents, cursor), search) IN
         IF index = -1 THEN [panic |-> FALSE, matches |-> matches]
         ELSE LET actualIndex == cursor + index IN
              Scan(contents, search, NextCursor(actualIndex, search), Append(matches, actualIndex))

\* fmt.Sprintf("%d", index)
Digits == <<"0", "1", "2", "3", "4", "5", "6", "7", "8", "9">>
RECURSIVE Decimal(_)
Decimal(n) == IF n < 10 THEN <<Digits[n + 1]>> ELSE Append(Decimal(n \div 10), Digits[(n % 10) + 1])

\* sha256.Sum256 and the first 8 hex characters of it: a value determined by the
\* hashed bytes (two different inputs are taken not to collide)
Sum256Hex8(data) == <<"sha256[:8] of ">> \o data

\* generateMatchID: the hash of "targetFile:search:replace:index"
generateMatchID(targetFile, search, replace, index) ==
    Sum256Hex8(targetFile \o <<":">> \o search \o <<":">> \o replace \o <<":">> \o Decimal(index))

\* the ids of the error for several matches, in the order of the matches
MatchIDs(targetFile, search, replace, matches) ==
    [i \in 1..Len(matches) |-> generateMatchID(targetFile, search, replace, i - 1)]

\* the match chosen for replacement: the only one, or the first whose id is matchID;
\* -1 when no id is matchID
TargetMatchIndex(targetFile, search, replace, matchID, matches) ==
    IF Len(matches) = 1 THEN matches[1]
    ELSE LET hit == {i \in 1..Len(matches) : generateMatchID(targetFile, search, replace, i - 1) = matchID}
         IN IF hit = {} THEN -1 ELSE matches[CHOOSE i \in hit : \A j \in hit : i <= j]

\* contents[:targetMatchIndex] + replace + contents[targetMatchIndex+len(search):]
Replaced(contents, search, replace, targetMatchIndex) ==
    Slice(contents, 0, targetMatchIndex) \o replace
        \o SliceFrom(contents, targetMatchIndex + Len(search))

\* what FileEdit returns: the error kinds are the messages of its errors
\* ("search text not found", "multiple matches found", "match ID not found")
EditResult(status, ids) == [status |-> status, ids |-> ids]
NoEditArgs == [search |-> <<>>, replace |-> <<>>, matchID |-> <<>>]

\* FileEdit up to the replacement: [status, ids, newContents]
FileEditOutcome(contents, targetFile, search, replace, matchID) ==
    LET scan == Scan(contents, search, 0, <<>>)
        matches == scan.matches
        ret(status, ids, new) == [status |-> status, ids |-> ids, newContents |-> new]
    IN  IF scan.panic THEN ret("panic", <<>>, contents)
        ELSE IF Len(matches) = 0 THEN ret("NotFound", <<>>, contents)
        ELSE IF Len(matches) > 1 /\ matchID = <<>>
             THEN ret("AmbiguousMatch", MatchIDs(targetFile, search, replace, matches), contents)
        ELSE LET targetMatchIndex == TargetMatchIndex(targetFile, search, replace, matchID, matches) IN
             IF targetMatchIndex = -1 THEN ret("NotFound", <<>>, contents)
             ELSE ret("ok", <<>>, Replaced(contents, search, replace, targetMatchIndex))

\* the texts a call may pass as search, replace and matchID
Searches == StringsUpTo(MaxSearch)
Replacements == {<<>>, <<"b">>, <<"a", "a">>}
MatchIDsOf(search, replace) ==
    {<<>>, <<"deadbeef">>} \cup {generateMatchID(TargetFile, search, replace, i) : i \in 0..2}

\* one FileEdit call; the patch is applied to the snapshot, or the runtime fails
FileEdit(search, replace, matchID) ==
    /\ edCalls < MaxEdits
    /\ edCalls' = edCalls + 1
    /\ edArgs' = [search |-> search, replace |-> replace, matchID |-> matchID]
    /\ LET o == FileEditOutcome(fileContents, TargetFile, search, replace, matchID) IN
        IF o.status = "ok"
        THEN \/ /\ fileContents' = o.newContents
                /\ edRes' = EditResult("ok", <<>>)
             \/ /\ fileContents' = fileContents
                /\ edRes' = EditResult("InfraError", <<>>)
        ELSE /\ fileContents' = fileContents
             /\ edRes' = EditResult(o.status, o.ids)
    /\ UNCHANGED nonEditVars

\* no FileEdit call has been made
NoEdits ==
    /\ edArgs = NoEditArgs
    /\ edRes = EditResult("none", <<>>)
    /\ edCalls = 0

InitEdit ==
    /\ fileContents \in StringsUpTo(MaxLen)
    /\ NoEdits

NextEdit ==
    \E search \in Searches, replace \in Replacements :
        \E matchID \in MatchIDsOf(search, replace) : FileEdit(search, replace, matchID)

(***************************************************************************)
(* FileRead: the line range of a file                                      *)
(***************************************************************************)
Newline == "\n"

\* the files FileRead is called on: texts of "a" and newlines
RECURSIVE TextsOfLen(_)
TextsOfLen(n) ==
    IF n = 0 THEN {<<>>}
    ELSE {Append(s, c) : s \in TextsOfLen(n - 1), c \in {"a", Newline}}

TextsUpTo(n) == UNION {TextsOfLen(k) : k \in 0..n}

\* strings.Split(file, "\n"): the pieces between the newlines, at least one
RECURSIVE Split(_)
Split(str) ==
    LET at == {i \in 1..Len(str) : str[i] = Newline} IN
    IF at = {} THEN <<str>>
    ELSE LET i == CHOOSE k \in at : \A j \in at : k <= j
         IN <<SubSeq(str, 1, i - 1)>> \o Split(SubSeq(str, i + 1, Len(str)))

\* strings.Join(lines, "\n")
RECURSIVE Join(_)
Join(lines) ==
    IF lines = <<>> THEN <<>>
    ELSE IF Len(lines) = 1 THEN lines[1]
    ELSE lines[1] \o <<Newline>> \o Join(Tail(lines))

Max(a, b) == IF a >= b THEN a ELSE b

ReadResult(err, text) == [err |-> err, text |-> text]
NoReadArgs == [shouldReadEntireFile |-> TRUE, startLine |-> 0, endLine |-> 0]

\* start after max(start, 0) and the clamp to the last line
ReadStart(lines, startLineOneIndexedInclusive) ==
    LET start == Max(startLineOneIndexedInclusive - 1, 0)
    IN IF start >= Len(lines) THEN Len(lines) - 1 ELSE start

\* end after the clamp
ReadEnd(lines, endLineOneIndexedInclusive) ==
    IF endLineOneIndexedInclusive >= Len(lines) THEN Len(lines) - 1
    ELSE endLineOneIndexedInclusive

\* FileRead once the contents are read; the errors are named by their kind
\* ("... cannot be less than 1", "... must be greater than ...": RangeError)
FileRead(file, shouldReadEntireFile, startLineOneIndexedInclusive, endLineOneIndexedInclusive) ==
    IF shouldReadEntireFile THEN ReadResult("none", file)
    ELSE LET lines == Split(file)
             start == ReadStart(lines, startLineOneIndexedInclusive)
             end == ReadEnd(lines, endLineOneIndexedInclusive)
         IN  IF start < 0 THEN ReadResult("RangeError", <<>>)
             ELSE IF end < start THEN ReadResult("RangeError", <<>>)
             ELSE ReadResult("none", Join(Slice(lines, start, end)))

LineArgs == (0 - 1)..MaxLine

\* one FileRead call: the runtime returns the contents of the file, or fails
FileReadCall(shouldReadEntireFile, startLine, endLine) ==
    /\ rdArgs' = [shouldReadEntireFile |-> shouldReadEntireFile,
                  startLine |-> startLine, endLine |-> endLine]
    /\ \/ rdRes' = ReadResult("InfraError", <<>>)
       \/ rdRes' = FileRead(fileContents, shouldReadEntireFile, startLine, endLine)
    /\ UNCHANGED fileContents
    /\ UNCHANGED nonReadVars

\* no FileRead call has been made
NoReads ==
    /\ rdArgs = NoReadArgs
    /\ rdRes = ReadResult("unread", <<>>)

InitRead ==
    /\ fileContents \in TextsUpTo(MaxReadLen)
    /\ NoReads

NextRead ==
    \E shouldReadEntireFile \in BOOLEAN, startLine \in LineArgs, endLine \in LineArgs :
        FileReadCall(shouldReadEntireFile, startLine, endLine)

(***************************************************************************)
(* Specifications                                                          *)
(***************************************************************************)
\* operations on one Environment by concurrent callers
EnvInit == InitEnv /\ InitLock /\ fileContents = <<>> /\ NoEdits /\ NoReads /\ NoBackground /\ NoNotebook /\ NoPeer
SpecEnv == EnvInit /\ [][NextEnv]_vars

\* mutations and read-only operations of concurrent callers
SpecSnapshot == EnvInit /\ [][NextSnapshot]_vars

\* FileEdit calls on one file: the first contents and the arguments are any texts
EditInit == InitEdit /\ NoReads /\ InitEnv /\ InitLock /\ NoBackground /\ NoNotebook /\ NoPeer
SpecEdit == EditInit /\ [][NextEdit]_vars

\* FileRead calls on one file: the contents and the arguments are any texts and numbers
ReadInit == InitRead /\ NoEdits /\ InitEnv /\ InitLock /\ NoBackground /\ NoNotebook /\ NoPeer
SpecRead == ReadInit /\ [][NextRead]_vars

\* one Environment from New or Load on, in container mode or host mode, one caller
LifeInit == InitLife /\ InitLock /\ fileContents = <<>> /\ NoEdits /\ NoReads /\ NoBackground /\ NoNotebook /\ NoPeer
SpecLife == LifeInit /\ [][NextLife]_vars

\* concurrent RunBackground, KillBackground, Terminal and Checkpoint calls on one
\* Environment, created in host mode or in container mode
BgInit == InitBg /\ InitLock /\ fileContents = <<>> /\ NoEdits /\ NoReads /\ NoNotebook /\ NoPeer
SpecBg == BgInit /\ [][NextBg]_vars

\* concurrent RunBackground and KillBackground calls on a host-mode Environment
BgHostInit == InitBgHost /\ InitLock /\ fileContents = <<>> /\ NoEdits /\ NoReads /\ NoNotebook /\ NoPeer
SpecBgHost == BgHostInit /\ [][NextBgHost]_vars

\* RunBackground and KillBackground calls, one at a time, on a host-mode Environment
\* with two processes in its list
KillInit == InitBgStarted /\ InitLock /\ fileContents = <<>> /\ NoEdits /\ NoReads /\ NoNotebook /\ NoPeer
SpecKill == KillInit /\ [][NextKill]_vars

\* two Environments on one host
PeersInit == InitBgHost /\ InitLock /\ fileContents = <<>> /\ NoEdits /\ NoReads /\ NoNotebook /\ NoPeer
SpecPeers == PeersInit /\ [][NextPeers]_vars

\* callers of ExecuteCell on the notebook environments Create returned
CellInit ==
    InitCell /\ InitEnv /\ InitLock /\ fileContents = <<>> /\ NoEdits /\ NoReads /\ NoBackground /\ NoPeer
SpecCell == CellInit /\ [][NextCell]_vars

\* goroutines registering notebooks and submitting requests while the workers run
PoolInit ==
    InitPool /\ InitEnv /\ InitLock /\ fileContents = <<>> /\ NoEdits /\ NoReads /\ NoBackground /\ NoPeer
SpecPool == PoolInit /\ [][NextPool]_vars

\* Start, Execute and Stop in any order on a new executor
ExecutorInit ==
    InitExecutor /\ InitEnv /\ InitLock /\ fileContents = <<>> /\ NoEdits /\ NoReads /\ NoBackground /\ NoPeer
SpecExecutor == ExecutorInit /\ [][NextExecutor]_vars

\* calls of the tool handlers, before and after Initialize
ToolsInit ==
    InitTools /\ InitEnv /\ InitLock /\ fileContents = <<>> /\ NoEdits /\ NoReads /\ NoBackground /\ NoPeer
SpecTools == ToolsInit /\ [][NextTools]_vars

\* processes contending on the lock files of one repository
LockInit == InitLock /\ InitEnv /\ fileContents = <<>> /\ NoEdits /\ NoReads /\ NoBackground /\ NoNotebook /\ NoPeer
SpecLock == LockInit /\ [][NextLock]_vars

\* the same callers where opening the lock file can fail
SpecLockOpen == LockInit /\ [][NextLockOpen]_vars

\* goroutines of one process on one shared manager, and other processes
LockSharedInit == InitLockShared /\ InitEnv /\ fileContents = <<>> /\ NoEdits /\ NoReads /\ NoBackground /\ NoNotebook /\ NoPeer
SpecLockShared == LockSharedInit /\ [][NextLock]_vars

\* processes whose managers were created with different path strings of the repository
LockRoutesInit == InitLockRoutes /\ InitEnv /\ fileContents = <<>> /\ NoEdits /\ NoReads /\ NoBackground /\ NoNotebook /\ NoPeer
SpecLockRoutes == LockRoutesInit /\ [][NextLock]_vars

\* every deadline is finite, and the Go scheduler runs a goroutine whose select
\* has a ready case
FairSpecLock ==
    /\ SpecLock
    /\ \A p \in Procs : WF_lockVars(Timeout(p))

(***************************************************************************)
(* Claims about the Repository Lock Manager                                *)
(***************************************************************************)
HoldsNothing(p) == \A t \in LockTypes : flocks[p][t] = NewFlock

\* the step grants p the lock it asked for
Granted(p) == lpc[p] \in {"idle", "wait"} /\ lpc'[p] = "body"

\* the step is a call of p whose first attempt is refused
Refused(p) == lpc[p] = "idle" /\ lpc'[p] = "wait"

\* C4: while a caller is inside the protected function of WithLock on a lock type,
\* no other caller is inside a protected function (WithLock or WithRLock) on that
\* type and no other handle holds the type's lock file, so two WithLock bodies on
\* "notes" never overlap.
C4_ExclusiveMutualExclusion ==
    \A p, q \in Procs :
        (p # q /\ lpc[p] = "body" /\ req[p].excl) =>
            /\ ~(lpc[q] = "body" /\ req[q].type = req[p].type)
            /\ flocks[q][req[p].type].held = "none"

\* one caller is inside WithLock on "notes" while another waits for the same lock
C4_Witness ==
    \E p, q \in Procs :
        /\ p # q
        /\ lpc[p] = "body" /\ req[p] = [type |-> "notes", excl |-> TRUE]
        /\ lpc[q] = "wait" /\ req[q] = [type |-> "notes", excl |-> TRUE]

\* C5: a shared request is refused only while another handle holds the file
\* exclusively (shared holders never keep readers out), an exclusive request is
\* granted only when no other handle holds the file in any form, and no state has a
\* shared and an exclusive lock on one file.
C5_ReadersWriter ==
    /\ [](\A p, q \in Procs, t \in LockTypes :
            (p # q /\ flocks[p][t].held = "ex") => flocks[q][t].held = "none")
    /\ [][\A p \in Procs :
            /\ (Refused(p) /\ ~req'[p].excl) =>
                   \E q \in Procs \ {p} : flocks[q][req'[p].type].held = "ex"
            /\ (Granted(p) /\ req'[p].excl) =>
                   \A q \in Procs \ {p} : flocks[q][req'[p].type].held = "none"
         ]_vars

\* two callers hold the shared lock of one type while a third waits for the
\* exclusive one
C5_Witness ==
    \E p, q, w \in Procs, t \in LockTypes :
        /\ p # q
        /\ lpc[p] = "body" /\ req[p] = [type |-> t, excl |-> FALSE]
        /\ lpc[q] = "body" /\ req[q] = [type |-> t, excl |-> FALSE]
        /\ lpc[w] = "wait" /\ req[w] = [type |-> t, excl |-> TRUE]

\* C6: an exclusive request is refused, and so made to wait or time out, only
\* when another caller holds the lock file of the very type it asked for; locks
\* held on the other types of the repository never refuse it.
C6_DomainsIndependent ==
    [][\A p \in Procs :
          (Refused(p) /\ req'[p].excl) =>
              \E q \in Procs \ {p} : flocks[q][req'[p].type].held # "none"
      ]_vars

\* one caller holds "notes" exclusively while another holds "worktree" exclusively
C6_Witness ==
    \E p, q \in Procs :
        /\ lpc[p] = "body" /\ req[p] = [type |-> "notes", excl |-> TRUE]
        /\ lpc[q] = "body" /\ req[q] = [type |-> "worktree", excl |-> TRUE]

\* C7: a caller whose request timed out holds nothing afterwards: as long as it
\* makes no new request, none of its handles is locked, in the kernel or by its
\* own flags, and a request ends waiting only by a grant or with the timeout error.
C7_TimedOutHoldsNothing ==
    \A p \in Procs :
        /\ (lpc[p] = "idle" /\ lres[p] = "timeout") => HoldsNothing(p)
        /\ lpc[p] = "wait" => HoldsNothing(p)

\* a request has timed out while the holder it waited for is still inside its
\* protected function
C7_Witness ==
    \E p, q \in Procs :
        /\ p # q
        /\ lpc[p] = "idle" /\ lres[p] = "timeout"
        /\ lpc[q] = "body" /\ req[q].excl

\* C8: a Lock/RLock request that has to wait always stops waiting: it is granted
\* the lock or, its deadline elapsed or its context cancelled, returns the
\* timeout error.
\* (waiting leads to not waiting, at every moment: no caller waits forever)
C8_LockAlwaysReturns ==
    \A p \in Procs : []<>(lpc[p] # "wait")

\* a shared and an exclusive request both wait on the type another caller holds
C8_Witness ==
    \E p, q, h \in Procs :
        /\ lpc[p] = "wait" /\ req[p].excl
        /\ lpc[q] = "wait" /\ ~req[q].excl
        /\ lpc[h] = "body" /\ req[h].type = req[p].type /\ req[h].type = req[q].type

\* C9: after WithLock/WithRLock has returned what the protected function returned
\* (nil, an error) or has let its panic through, the caller holds no lock.
C9_ReleasedOnEveryExit ==
    \A p \in Procs :
        (lpc[p] = "idle" /\ lres[p] \in FnOutcomes) => HoldsNothing(p)

\* a protected function has panicked and the call has ended
C9_Witness ==
    \E p \in Procs : lpc[p] = "idle" /\ lres[p] = "panic"

(***************************************************************************)
(* Claims about the Environment                                            *)
(***************************************************************************)
\* t's operation replaces the snapshot in this step
Replaces(t) == epc[t] # "idle" /\ epc'[t] = "idle" /\ eres'[t].err = "none"

\* C1: mutating operations on one Environment are strictly serialized: no call
\* reads the current snapshot while another call is between reading the snapshot
\* and replacing it, so the snapshot an operation replaces is the one it read and
\* built its new state from (no completed mutation's effect is lost).
C1_MutationsSerialized ==
    [][\A t \in Threads : Replaces(t) => base[t] = snapshotRef]_vars

\* t's UpdateConfig returns in this step the error of a setup or install command
\* that exited non-zero
UpdateConfigFails(t) ==
    epc[t] = "uc_build" /\ epc'[t] = "idle" /\ eres'[t].err = "BuildError"

\* C2: UpdateConfig is transactional: when the rebuild fails, UpdateConfig returns
\* its error with config as it was before the call and snapshotRef not replaced;
\* config and snapshotRef are replaced only when the rebuild succeeds.
C2_UpdateConfigTransactional ==
    [][\A t \in Threads :
        UpdateConfigFails(t) => (config' = prior[t] /\ snapshotRef' = snapshotRef)]_vars

\* t's Run returns in this step
RunReturns(t) == epc[t] \in {"run_exec", "run_apply"} /\ epc'[t] = "idle"

\* the tokens of s occur, in order and adjacent, in out
Contains(out, s) ==
    \E i \in 0..(Len(out) - Len(s)) : SubSeq(out, i + 1, i + Len(s)) = s

\* C3: Run persists the state the command produced whatever its exit code: a Run
\* of a command that exits non-zero returns an error only when the runtime itself
\* failed; otherwise it returns no error, the snapshot becomes the post-command
\* state (what the failing command wrote, and the files of the snapshot it ran
\* on) and the returned output contains the command's stderr.
C3_RunPersistsOnNonZeroExit ==
    [][\A t \in Threads :
        (RunReturns(t) /\ arg[t].exit # 0) =>
            \/ eres'[t].err = "InfraError" /\ snapshotRef' = snapshotRef
            \/ /\ eres'[t].err = "none"
               /\ snapshotRef' = WithExec(base[t], arg[t])
               /\ snapshotRef'.b = arg[t].writes
               /\ snapshotRef'.a = base[t].a
               /\ updatedAt' = updatedAt + 1
               /\ Contains(eres'[t].out, <<"stderr: ">> \o arg[t].stderr)]_vars

\* a Run of the failing command has returned its output without error on an
\* Environment where an earlier FileWrite had created "a": both are in the snapshot
C3_Witness ==
    \E t \in Threads :
        /\ epc[t] = "idle"
        /\ eres[t] = Ok(<<"stderr: ", "boom">>)
        /\ snapshotRef.a = "x"
        /\ snapshotRef.b = "half"

(***************************************************************************)
(* Claims about FileEdit                                                   *)
(***************************************************************************)
\* the occurrences of search in contents from position from on, as FileEdit's
\* contract counts them: the non-overlapping literal occurrences of a left-to-right
\* scan that resumes after the end of each match (search is not empty)
RECURSIVE Occurrences(_, _, _)
Occurrences(contents, search, from) ==
    LET at == {i \in from..(Len(contents) - Len(search)) :
                   SubSeq(contents, i + 1, i + Len(search)) = search}
    IN IF at = {} THEN <<>>
       ELSE LET first == CHOOSE i \in at : \A j \in at : i <= j
            IN <<first>> \o Occurrences(contents, search, first + Len(search))

\* this step is a FileEdit call without matchId on a file that contains search
\* more than once
AmbiguousCall ==
    /\ edCalls' = edCalls + 1
    /\ edArgs'.matchID = <<>>
    /\ edArgs'.search # <<>>
    /\ Len(Occurrences(fileContents, edArgs'.search, 0)) > 1

\* C10: FileEdit without matchId on a file containing search more than once fails
\* with AmbiguousMatch, changes nothing and reports exactly one id per occurrence,
\* the id of the i-th occurrence being the function of (path, search, replace, i);
\* the same call repeated on the unchanged file reports the same ids in the same
\* order.
C10_AmbiguousMatchIds ==
    [][AmbiguousCall =>
        /\ edRes'.status = "AmbiguousMatch"
        /\ fileContents' = fileContents
        /\ Len(edRes'.ids) = Len(Occurrences(fileContents, edArgs'.search, 0))
        /\ \A i \in 1..Len(edRes'.ids) :
              edRes'.ids[i] = generateMatchID(TargetFile, edArgs'.search, edArgs'.replace, i - 1)
        /\ \A i, j \in 1..Len(edRes'.ids) : i # j => edRes'.ids[i] # edRes'.ids[j]
        /\ (edArgs = edArgs' /\ edRes.status = "AmbiguousMatch") => edRes'.ids = edRes.ids]_vars

\* contents with the len bytes at offset off replaced by replace, every other byte
\* as it was
ReplacedAt(contents, off, len, replace) ==
    SubSeq(contents, 1, off) \o replace \o SubSeq(contents, off + len + 1, Len(contents))

\* this step is a FileEdit call with a matchId on a file that contains search
\* more than once
MatchIdCall ==
    /\ edCalls' = edCalls + 1
    /\ edArgs'.matchID # <<>>
    /\ edArgs'.search # <<>>
    /\ Len(Occurrences(fileContents, edArgs'.search, 0)) > 1

SingleMatchCall ==
    /\ edCalls' = edCalls + 1
    /\ edArgs'.search # <<>>
    /\ Len(Occurrences(fileContents, edArgs'.search, 0)) = 1

\* C12: FileEdit on a file that contains search exactly once replaces that
\* occurrence whatever matchId is (or the runtime fails and nothing changes): the
\* result is the original contents with the occurrence replaced by replace.
C12_SingleMatchReplaced ==
    [][SingleMatchCall =>
        \/ edRes'.status = "InfraError" /\ fileContents' = fileContents
        \/ /\ edRes'.status = "ok"
           /\ fileContents' = ReplacedAt(fileContents, Occurrences(fileContents, edArgs'.search, 0)[1],
                                         Len(edArgs'.search), edArgs'.replace)]_vars

(***************************************************************************)
(* Claims about FileRead                                                   *)
(***************************************************************************)
\* the lines of a file: the pieces between the newlines, the newline at the end of
\* the file ending its last line
LinesOf(file) ==
    LET parts == Split(file)
    IN IF parts[Len(parts)] = <<>> THEN SubSeq(parts, 1, Len(parts) - 1) ELSE parts

Min(a, b) == IF a <= b THEN a ELSE b

\* the last FileRead call asked for a line range and the runtime returned the file
RangeRead == rdRes.err \notin {"unread", "InfraError"} /\ ~rdArgs.shouldReadEntireFile

\* C13: FileRead with readEntireFile=false returns exactly the lines
\* startLine..endLine (1-indexed, inclusive), the range clamped to the file: with
\* endLine beyond the last line n the result ends with line n.
C13_ReadReturnsLineRange ==
    LET lines == LinesOf(fileContents)
        n == Len(lines)
    IN (RangeRead /\ 1 <= rdArgs.startLine /\ rdArgs.startLine <= n
            /\ rdArgs.startLine <= rdArgs.endLine)
        => /\ rdRes.err = "none"
           /\ rdRes.text = Join(SubSeq(lines, rdArgs.startLine, Min(rdArgs.endLine, n)))

\* C14: FileRead with readEntireFile=false fails with RangeError and returns no
\* text whenever startLine < 1 and whenever the end line, clamped to the file,
\* precedes the start line, clamped to the file.
C14_ReadRangeError ==
    LET n == Len(LinesOf(fileContents))
    IN (RangeRead /\ (rdArgs.startLine < 1
                        \/ Min(rdArgs.endLine, n) < Min(rdArgs.startLine, n)))
        => rdRes = ReadResult("RangeError", <<>>)

(***************************************************************************)
(* Claims about the Environment's snapshot, Notes and mode                 *)
(***************************************************************************)
\* where a caller is inside FileWrite, FileDelete, FileEdit or UpdateConfig
NonRunLabels == {"fw_apply", "fd_apply", "fe_patch", "fe_apply", "uc_build", "uc_apply"}

\* t takes a step of FileWrite, FileDelete, FileEdit or UpdateConfig that is not
\* the successful end of the operation: the operation starts, goes on, or fails
StepWithoutSuccess(t) ==
    /\ \/ epc[t] \in NonRunLabels /\ epc'[t] # epc[t]
       \/ epc[t] = "idle" /\ nOps' = nOps + 1
    /\ epc'[t] \in NonRunLabels \/ (epc'[t] = "idle" /\ eres'[t].err # "none")

OperationNotes ==
    LET ByOperation(n) == n.command \notin {CmdInstallOk.name, CmdInstallKo.name}
    IN SelectSeq(notes, ByOperation)

\* C15: when no operation is in progress, the Notes log holds exactly one entry for
\* every command executed through Run (whatever its exit code) and for every
\* successful FileWrite, FileEdit and FileDelete, in the order in which those
\* operations completed.
C15_NotesInCompletionOrder ==
    (\A t \in Threads : epc[t] = "idle") => OperationNotes = completed

(***************************************************************************)
(* Claims: the lifecycle of an Environment in either mode                  *)
(***************************************************************************)
\* t's mutating operation returns without error at this step
SucceedsAt(t) ==
    /\ epc[t] # "idle"
    /\ epc'[t] = "idle"
    /\ eres'[t].err = "none"

\* the reference of the state t's operation produced: the container it built, or the
\* sentinel "host" on the host path of UpdateConfig
Produced(t) == IF epc[t] = "uc_apply" /\ IsHost(config) THEN HostRef ELSE tmp[t]

\* a Run on the host path: it starts, logs its command and returns, always without
\* error, in one step
RunsOnHost ==
    /\ nOps' = nOps + 1
    /\ epc' = epc
    /\ Len(notes') = Len(notes) + 1

\* C16: in either mode, the step by which a mutating operation returns successfully
\* has strictly increased updatedAt and has replaced snapshotRef with the reference
\* of the state the operation produced.
C16_SuccessAdvancesSnapshot ==
    [][/\ \A t \in Threads :
            SucceedsAt(t) => updatedAt' > updatedAt /\ snapshotRef' = Produced(t)
       /\ RunsOnHost => updatedAt' > updatedAt /\ snapshotRef' = HostRef]_vars

Idle == \A t \in Threads : epc[t] = "idle"

\* C18: once the Environment has been created or loaded and no operation is in
\* progress, snapshotRef is the sentinel "host" exactly when config.baseImage equals
\* "host" case-insensitively, and the mode is the one the Environment was created or
\* loaded in.
C18_ModeFixed ==
    (life = "Ready" /\ Idle) =>
        /\ snapshotRef = HostRef <=> IsHost(config)
        /\ IsHost(config) <=> newRes.host

\* the first command of the config's setup and install commands that exits non-zero
FailingCommand(cfg) ==
    LET all == cfg.setupCommands \o cfg.installCommands
        k == CHOOSE k \in 1..Len(all) :
                 all[k].exit # 0 /\ \A j \in 1..(k - 1) : all[j].exit = 0
    IN all[k]

\* New ended after a setup or install command exited non-zero
CreateStoppedByCommand ==
    /\ life = "Failed"
    /\ buildLog # <<>>
    /\ buildLog[Len(buildLog)].exit # 0

\* C19: when a setup or install command exits non-zero during Create, in either
\* mode, Create returns no Environment and a BuildError whose message names the
\* failing command and carries what the command printed (its stdout and stderr).
C19_CreateBuildError ==
    CreateStoppedByCommand =>
        LET cmd == FailingCommand(config) IN
            /\ ~newRes.env
            /\ newRes.err = "BuildError"
            /\ Contains(newRes.text, <<cmd.name>>)
            /\ Contains(newRes.text, cmd.stdout)
            /\ Contains(newRes.text, cmd.stderr)

\* the whole build sequence of a config: the setup commands in list order, the source
\* tree (container mode), the install commands in list order
BuildSequence(cfg) ==
    StepsOf(cfg.setupCommands) \o (IF IsHost(cfg) THEN <<>> ELSE <<SourceStep>>)
        \o StepsOf(cfg.installCommands)

\* a build of Create or UpdateConfig ends at this step
BuildEnds ==
    \/ life = "Building" /\ life' # "Building"
    \/ \E t \in Threads : epc[t] = "uc_build" /\ epc'[t] # "uc_build"

ScanCall ==
    /\ edCalls' = edCalls + 1
    /\ edArgs'.search # <<>>
    /\ edArgs'.matchID = <<>>

\* C30: the occurrences FileEdit counts are the non-overlapping occurrences of
\* search, scanned left to right and resuming after the end of each match, and
\* their number decides the path of a call without matchId: none is NotFound, one
\* is the single-match replacement, several are AmbiguousMatch with one id each.
C30_NonOverlappingOccurrences ==
    [][ScanCall =>
        LET n == Len(Occurrences(fileContents, edArgs'.search, 0)) IN
            \/ n = 0 /\ edRes'.status = "NotFound"
            \/ n = 1 /\ edRes'.status \in {"ok", "InfraError"}
            \/ n > 1 /\ edRes'.status = "AmbiguousMatch" /\ Len(edRes'.ids) = n]_vars

(***************************************************************************)
(* Claims: errors of the build and of Run                                  *)
(***************************************************************************)
\* the config has an env or secrets entry without the "=" separator
Malformed(cfg) ==
    \/ \E k \in 1..Len(cfg.env) : "=" \notin {cfg.env[k][j] : j \in 1..Len(cfg.env[k])}
    \/ \E k \in 1..Len(cfg.secrets) :
          "=" \notin {cfg.secrets[k][j] : j \in 1..Len(cfg.secrets[k])}

\* the build that ends at this step returns the error e: from New, or from
\* UpdateConfig to its caller
BuildReturns(e) ==
    \/ life = "Building" /\ life' = "Failed" /\ newRes'.err = e
    \/ \E t \in Threads :
          epc[t] = "uc_build" /\ epc'[t] = "idle" /\ eres'[t].err = e

\* C21: in either mode, the build of Create or UpdateConfig for a config with an env
\* or secrets entry without "=" ends with a ConfigError, runs no setup or install
\* command and adds no entry to Notes.
C21_MalformedConfigRejected ==
    [][(BuildEnds /\ Malformed(config')) =>
        /\ BuildReturns("ConfigError")
        /\ notes' = notes
        /\ buildLog' = <<>>]_vars

\* what happened to the command of the Run that returns: the runtime failed
\* (ExitCode, Stdout, Stderr or apply returned an error), or the host could not
\* start it
RuntimeFailed(t) == RunReturns(t) /\ eres'[t].err = "InfraError"
HostCouldNotStart == RunsOnHost /\ notes'[Len(notes')].stderr = StartError

\* C22: in either mode Run returns an error exactly when the command could not be
\* executed (the runtime failed, or the host could not start the command); a command
\* that was executed returns no error whatever its exit code.
C22_RunErrorIffNotExecuted ==
    [][/\ \A t \in Threads : RunReturns(t) => (eres'[t].err # "none" <=> RuntimeFailed(t))
       /\ RunsOnHost =>
            \A t \in Threads :
                (epc[t] = "idle" /\ eres'[t] # eres[t]) =>
                    (eres'[t].err # "none" <=> HostCouldNotStart)]_vars


(***************************************************************************)
(* Claims: background processes, Terminal and Checkpoint                   *)
(***************************************************************************)
\* a host-mode RunBackground has chosen its ports and started the process
PortsChosen(t) == bpc[t] = "idle" /\ bpc'[t] = "rb_record"

\* a host-mode RunBackground failed before it started anything
NoPortFound(t) ==
    /\ IsHost(config)
    /\ bpc[t] = "idle" /\ bpc'[t] = "idle" /\ nBg' = nBg + 1
    /\ bres'[t] = BgResult("RunBackground", "InfraError", <<>>)
    /\ notes' = notes

\* C23: the ports a host-mode RunBackground chooses were free when it chose them; a
\* requested port that is free is used as it is; the call fails for want of a port
\* only when no port is free; and two requests for port 0 get two different ports.
C23_PortsFreeAndDistinct ==
    [][\A t \in Threads :
        /\ PortsChosen(t) =>
              LET requested == barg'[t].requested
                  chosen == barg'[t].ports
              IN /\ \A k \in 1..Len(chosen) : isPortAvailable(chosen[k])
                 /\ \A k \in 1..Len(chosen) :
                       (requested[k] > 0 /\ isPortAvailable(requested[k]))
                           => chosen[k] = requested[k]
                 /\ \A j, k \in 1..Len(chosen) :
                       (j # k /\ requested[j] = 0 /\ requested[k] = 0)
                           => chosen[j] # chosen[k]
        /\ NoPortFound(t) => Ports \subseteq BoundPorts]_vars

\* the same without the last part: what holds of every allocation
C23_PortsFree ==
    [][\A t \in Threads :
        /\ PortsChosen(t) =>
              LET requested == barg'[t].requested
                  chosen == barg'[t].ports
              IN /\ \A k \in 1..Len(chosen) : isPortAvailable(chosen[k])
                 /\ \A k \in 1..Len(chosen) :
                       (requested[k] > 0 /\ isPortAvailable(requested[k]))
                           => chosen[k] = requested[k]
        /\ NoPortFound(t) => Ports \subseteq BoundPorts]_vars


\* the Environment tracks a process with that pid
Tracked(pid) == \E k \in 1..Len(backgroundProcesses) : backgroundProcesses[k].pid = pid

\* a host-mode KillBackground went past its checks and signalled the process
KillProceeds(t) == bpc[t] = "idle" /\ bpc'[t] = "kb_grace"

\* C24: a KillBackground(pid) in host mode for a pid that backgroundProcesses does
\* not hold fails (NotFound) instead of going on, and leaves backgroundProcesses as it
\* was; a signal is only ever sent to a process the Environment tracks.
C24_KillOnlyTracked ==
    [][/\ \A t \in Threads : KillProceeds(t) => Tracked(barg'[t].pid)
       /\ signals' # signals => Tracked(signals'[Len(signals')].pid)
       /\ \A t \in Threads :
             (bpc[t] = "kb_remove" /\ ~Tracked(barg[t].pid))
                 => backgroundProcesses' = backgroundProcesses]_vars


\* a call of Terminal or Checkpoint returned
Returned(t, op) == bpc[t] = "idle" /\ nBg' = nBg + 1 /\ bres'[t].op = op

\* what a refused call leaves alone
NoEffect ==
    /\ snapshotRef' = snapshotRef
    /\ backgroundProcesses' = backgroundProcesses
    /\ updatedAt' = updatedAt
    /\ notes' = notes
    /\ signals' = signals

\* C25: Terminal and Checkpoint on a host-mode Environment and KillBackground on a
\* container-mode Environment return UnsupportedOperation and change neither
\* snapshotRef, backgroundProcesses, updatedAt nor Notes, and no signal is sent.
C25_WrongModeRefused ==
    [][\A t \in Threads :
        /\ (IsHost(config) /\ (Returned(t, "Terminal") \/ Returned(t, "Checkpoint")))
              => bres'[t].err = "UnsupportedOperation" /\ NoEffect
        /\ ~IsHost(config) =>
              /\ ~KillProceeds(t)
              /\ signals' = signals
              /\ Returned(t, "KillBackground")
                    => bres'[t].err = "UnsupportedOperation" /\ NoEffect]_vars

\* KillBackground was called on a container-mode Environment and refused
C25_Witness ==
    /\ ~IsHost(config)
    /\ bres[Caller] = BgResult("KillBackground", "UnsupportedOperation", <<>>)
    /\ signals = <<>>

\* Terminal was called on a host-mode Environment that tracks a process, and refused
C25_WitnessTerminal ==
    /\ IsHost(config)
    /\ bres[Caller] = BgResult("Terminal", "UnsupportedOperation", <<>>)
    /\ backgroundProcesses # <<>>

\* the start of the service of a container-mode RunBackground ran into the deadline
StartTimedOut(t) == bpc[t] = "rb_service" /\ barg[t].outcome = "DeadlineExceeded"

\* C26: a container-mode RunBackground whose service does not start within the start
\* deadline returns ServiceStartTimeout and no endpoints, and adds exactly one Notes
\* entry: the command with exit code 137.
C26_StartTimeout ==
    [][\A t \in Threads : StartTimedOut(t) =>
        /\ bpc'[t] = "idle"
        /\ bres'[t] = BgResult("RunBackground", "ServiceStartTimeout", <<>>)
        /\ Len(notes') = Len(notes) + 1
        /\ notes'[Len(notes')].command = CmdServe.name
        /\ notes'[Len(notes')].exit = 137
        /\ SubSeq(notes', 1, Len(notes)) = notes]_vars

\* a container-mode RunBackground returned ServiceStartTimeout and the entry is in Notes
C26_Witness ==
    /\ ~IsHost(config)
    /\ bres[Caller] = BgResult("RunBackground", "ServiceStartTimeout", <<>>)
    /\ notes # <<>> /\ notes[Len(notes)].exit = 137


(***************************************************************************)
(* Claims: package notebook                                                *)
(***************************************************************************)
\* the callers inside ExecuteCell on notebook nb
Executing(nb) == {t \in Threads : xpc[t] # "idle" /\ xarg[t].nb = nb}

\* an ExecuteCell call returned an error
CellFailed(t) == xpc[t] # "idle" /\ xpc'[t] = "idle" /\ xres'[t].err # "none"

\* C27: concurrent ExecuteCell calls on one notebook exclude each other and lose no
\* increment: with every call returned, ExecutionCount is its initial value (0) plus
\* the number of calls that succeeded; a failed call leaves ExecutionCount unchanged.
C27_ExecuteCellSerialized ==
    /\ [](\A nb \in Notebooks :
            /\ Cardinality(Executing(nb)) <= 1
            /\ Executing(nb) = {} => executionCount[nb] = succeeded[nb])
    /\ [][\A t \in Threads : CellFailed(t) => executionCount' = executionCount]_vars

\* one caller is about to store its increment on a notebook on which a call has
\* succeeded and the other caller's call has failed
C27_Witness ==
    \E nb \in Notebooks, t, u \in Threads :
        /\ t # u
        /\ succeeded[nb] >= 1
        /\ xres[u] = CellResult(nb, "ExecError")
        /\ xpc[t] = "store" /\ xarg[t].nb = nb
        /\ xpc[u] = "idle"


\* a worker has received a request and looked the notebook up
LookedUp(w) == wpc[w] = "idle" /\ queue' # queue /\ Len(queue') < Len(queue)

\* C28: with RegisterNotebook called from several goroutines while the workers run,
\* the pool is never corrupted (the program goes on), every notebook whose
\* registration has returned is in the pool, and a worker that looks such a notebook
\* up finds it.
C28_ConcurrentRegistration ==
    /\ [](~fatal /\ registered \subseteq pool)
    /\ [][\A w \in Workers :
            (LookedUp(w) /\ wreq'[w].nb \in registered /\ ~fatal')
                => wpc'[w] = "execute"]_vars


\* C29: every notebook tool handler, for any request parameters, returns a result
\* (with the failure inside it) and a nil error, and does not abort.
C29_HandlersReportInResult ==
    \A k \in 1..Len(toolCalls) :
        /\ ~toolCalls[k].outcome.panic
        /\ toolCalls[k].outcome.result # "nil"
        /\ toolCalls[k].outcome.err = "none"

\* the handlers do so for the requests json.Unmarshal rejects
C29_RejectedRequests ==
    \A k \in 1..Len(toolCalls) :
        ~Unmarshal(toolCalls[k].request).ok
            => toolCalls[k].outcome = Returns("error")


(***************************************************************************)
(* Claims: the Notes entries of a build                                    *)
(***************************************************************************)
\* the commands among the steps of a build
CommandSteps(steps) == SelectSeq(steps, LAMBDA st : st.step = "command")

\* the entry records the command: its name, its exit code and what it printed on
\* stdout and on stderr
Records(entry, cmd) ==
    /\ entry.command = cmd.name
    /\ entry.exit = cmd.exit
    /\ Contains(entry.stdout \o entry.stderr, cmd.stdout)
    /\ Contains(entry.stdout \o entry.stderr, cmd.stderr)

C31_WitnessUpdateConfig ==
    /\ life = "Ready"
    /\ ~IsHost(config)
    /\ eres[Caller].err = "BuildError"
    /\ Len(buildLog) >= 3
    /\ notes # <<>> /\ notes[Len(notes)].exit # 0

(***************************************************************************)
(* Claims: State.BackgroundProcesses under concurrent callers              *)
(***************************************************************************)
ListedPids == {backgroundProcesses[k].pid : k \in 1..Len(backgroundProcesses)}
\* the started processes whose RunBackground has not yet reached the append
Unrecorded == {barg[t].pid : t \in {u \in Threads : bpc[u] = "rb_record"}}
Killed == {signals[k].pid : k \in {j \in 1..Len(signals) : signals[j].sig = "SIGKILL"}}
\* the append of a RunBackground and the removal of a KillBackground
Appends(t) ==
    /\ bpc[t] = "rb_record"
    /\ bpc'[t] = "rb_note"
    /\ Len(backgroundProcesses') = Len(backgroundProcesses) + 1
    /\ SubSeq(backgroundProcesses', 1, Len(backgroundProcesses)) = backgroundProcesses
    /\ backgroundProcesses'[Len(backgroundProcesses')].pid = barg[t].pid
Removes(t) ==
    /\ bpc[t] = "kb_remove"
    /\ bpc'[t] = "kb_note"
    /\ backgroundProcesses' =
           SelectSeq(backgroundProcesses, LAMBDA bp : bp.pid # barg[t].pid)

C32_WitnessKill ==
    /\ \E t, u \in Threads :
          /\ bpc[t] = "kb_note" /\ bpc[u] = "rb_note"
          /\ barg[t].pid \in spawned
          /\ ListedPids = {barg[u].pid}

(***************************************************************************)
(* Claims: the steps of KillBackground                                     *)
(***************************************************************************)
Sent(pid, sig) == [pid |-> pid, sig |-> sig]
\* the positions of the pid's entries and the list without them
Others(pid) == SelectSeq(backgroundProcesses, LAMBDA bp : bp.pid # pid)
KillStep(from, to) == bpc[Caller] = from /\ bpc'[Caller] = to

\* C33: a KillBackground of a process of the list first sends SIGTERM and changes
\* neither the list nor Notes; after the grace period it sends SIGKILL, the entry
\* still being in the list; then it removes the entries with that pid, the other
\* entries staying in their order; then it appends one Notes entry and returns nil,
\* the list having no entry with the pid.
C33_KillBackgroundSteps ==
    [][/\ bpc'[Caller] = "kb_grace" /\ bpc[Caller] = "idle" /\ barg'[Caller].pid \in ListedPids =>
             /\ signals' = Append(signals, Sent(barg'[Caller].pid, "SIGTERM"))
             /\ backgroundProcesses' = backgroundProcesses
             /\ notes' = notes
       /\ KillStep("kb_grace", "kb_remove") /\ barg[Caller].pid \in ListedPids =>
             /\ signals[Len(signals)] = Sent(barg[Caller].pid, "SIGTERM")
             /\ signals' = Append(signals, Sent(barg[Caller].pid, "SIGKILL"))
             /\ backgroundProcesses' = backgroundProcesses
             /\ notes' = notes
       /\ KillStep("kb_remove", "kb_note") /\ barg[Caller].pid \in ListedPids =>
             /\ Len(signals) >= 2
             /\ signals[Len(signals) - 1] = Sent(barg[Caller].pid, "SIGTERM")
             /\ signals[Len(signals)] = Sent(barg[Caller].pid, "SIGKILL")
             /\ signals' = signals
             /\ backgroundProcesses' = Others(barg[Caller].pid)
             /\ notes' = notes
       /\ KillStep("kb_note", "idle") /\ barg[Caller].pid \in spawned =>
             /\ bres'[Caller] = BgResult("KillBackground", "none", <<>>)
             /\ barg[Caller].pid \notin ListedPids
             /\ backgroundProcesses' = backgroundProcesses
             /\ signals' = signals
             /\ Len(notes') = Len(notes) + 1
             /\ SubSeq(notes', 1, Len(notes)) = notes]_vars
C33_Witness ==
    /\ bres[Caller] = BgResult("KillBackground", "none", <<>>)
    /\ signals = <<Sent(1, "SIGTERM"), Sent(1, "SIGKILL")>>
    /\ backgroundProcesses = <<BackgroundProcess(2, <<>>, 2)>>
    /\ notes[Len(notes)] = NoteText("Stopped background process")

(***************************************************************************)
(* Claims: the snapshot reference under concurrent readers                 *)
(***************************************************************************)
Applying(t) == epc[t] \in {"run_apply", "fw_apply", "fd_apply"}
Reading(t) == epc[t] = "rd_use"

\* C34: a read-only operation resolves the reference that is installed at the moment
\* of its read and keeps it while mutations go on; the installed reference is
\* replaced only by the apply of a mutation that returns without error, and by the
\* container that mutation produced.
C34_SnapshotAtomic ==
    [][/\ \A t \in Threads :
            /\ (~Reading(t) /\ Reading(t)') => base'[t] = snapshotRef /\ Resolves(base'[t])
            /\ (Reading(t) /\ Reading(t)') => base'[t] = base[t]
       /\ snapshotRef' # snapshotRef =>
            \E t \in Threads :
                /\ Applying(t)
                /\ snapshotRef' = tmp[t]
                /\ Resolves(tmp[t])
                /\ eres'[t].err = "none"]_vars
C34_Witness ==
    \E t, u \in Threads :
        /\ Reading(t)
        /\ Applying(u)
        /\ base[t] # snapshotRef
        /\ tmp[u] # snapshotRef

(***************************************************************************)
(* Claims: the identity of a lock                                          *)
(***************************************************************************)
InBody(p, t) == lpc[p] = "body" /\ req[p].type = t

\* C35: managers created with any of the path strings of one repository name the
\* same lock file for a lock type, so that a caller inside WithLock on a type keeps
\* the callers of every other manager out of the protected functions of that type.
C35_OneLockPerRepository ==
    \A p, q \in Procs, t \in LockTypes :
        (mgr[p] # mgr[q] /\ InBody(p, t) /\ req[p].excl) => ~InBody(q, t)

(***************************************************************************)
(* Claims: goroutines that share one manager                               *)
(***************************************************************************)
\* C37: while a goroutine is inside the protected function of WithLock on a lock
\* type, no other goroutine of the same manager is inside a protected function of
\* that type, and the handle of a goroutine that is inside a protected function
\* holds the lock file.
C37_SharedManagerExclusion ==
    \A p \in Procs :
        lpc[p] = "body" =>
            /\ flocks[mgr[p]][req[p].type].held # "none"
            /\ req[p].excl =>
                  \A q \in Procs \ {p} : mgr[q] = mgr[p] => ~InBody(q, req[p].type)

(***************************************************************************)
(* Claims: WithLock and WithRLock after a failed acquisition               *)
(***************************************************************************)
AcquisitionErrors == {"timeout", "lockerr"}
\* the step ends p's wait without the lock
FailsWaiting(p) == lpc[p] = "wait" /\ lpc'[p] = "idle"
\* the step is a call that returns from its first attempt without the lock
FailsAtOnce(p) == lpc[p] = "idle" /\ lpc'[p] = "idle" /\ lres'[p] # lres[p]

\* C38: a caller is inside the protected function only with its handle holding the
\* lock file in the form it asked for; a call whose acquisition fails (the context
\* is done, or the lock file cannot be opened) returns the acquisition error without
\* having entered the protected function, and changes no handle: no Unlock is made.
C38_FnOnlyUnderLock ==
    /\ [](\A p \in Procs :
            lpc[p] = "body" =>
                flocks[mgr[p]][req[p].type].held = IF req[p].excl THEN "ex" ELSE "sh")
    /\ [][\A p \in Procs :
            /\ (FailsWaiting(p) \/ FailsAtOnce(p)) =>
                    /\ flocks' = flocks
                    /\ lres'[p] \in AcquisitionErrors
            /\ lpc'[p] = "body" => lpc[p] = "body" \/ lres'[p] = "none"
         ]_vars
C38_Witness ==
    \E p, q, h \in Procs :
        /\ lpc[p] = "idle" /\ lres[p] = "timeout"
        /\ lpc[q] = "idle" /\ lres[q] = "lockerr"
        /\ lpc[h] = "body" /\ req[h].excl

C36_WitnessKill ==
    /\ \E k \in 1..Len(peer.backgroundProcesses) :
          /\ peer.backgroundProcesses[k].pid \notin alive
          /\ peer.backgroundProcesses[k].pid = barg[Caller].pid
    /\ bpc[Caller] = "kb_note"

(***************************************************************************)
(* Claims: the end of FileEdit's scan                                      *)
(***************************************************************************)
\* C39: for every contents and every search text, the empty one included, the scan
\* of FileEdit ends without slicing past the end of the contents, and the call
\* returns success, NotFound or AmbiguousMatch (or the runtime's error of the apply).
C39_ScanEndsDefined ==
    edRes.status \in {"none", "ok", "NotFound", "AmbiguousMatch", "InfraError"}


\* the places that hold the request goroutine t has submitted: slots of pe.queue and
\* workers between the receive and the reply
Queued(t) == {i \in 1..Len(queue) : queue[i].from = t}
Serving(t) == {w \in Workers : wpc[w] = "execute" /\ wreq[w].from = t}

\* a request waiting for its result is in one place, an answered one in none, and a
\* worker executes only notebooks it found in the pool
TakenOnce ==
    /\ \A t \in Threads :
        Cardinality(Queued(t)) + Cardinality(Serving(t)) = (IF rpc[t] = "await" THEN 1 ELSE 0)
    /\ \A w \in Workers : wpc[w] = "execute" => wreq[w].nb \in pool

\* C40: whatever the order of Start, Execute and Stop, no Execute call fails because
\* the queue was closed, every submitted request is held by exactly one place until
\* it is answered and by none afterwards, and Stop returns only when no request is
\* queued or waiting for its result.
C40_ExecuteAlwaysAnswered ==
    /\ \A t \in Threads : pres[t] # "panic"
    /\ TakenOnce
    /\ stop = "returned" => queue = <<>> /\ \A t \in Threads : rpc[t] # "await"

====
